---- MODULE Spec2Model ----
(***************************************************************************)
(* State-machine model of the POS client: the App-level cart and catalog   *)
(* state (App.tsx), the cart view with its checkout form (Cart.tsx), the   *)
(* order-creation flow, and the list-fetching effects of the products      *)
(* dashboard and of the order history view.                                *)
(*                                                                         *)
(* Text typed into a field is a sequence of one-character strings, so that *)
(* trimming and number parsing are computed rather than assumed.           *)
(***************************************************************************)
EXTENDS Integers, Sequences, FiniteSets, TLC

VARIABLES
    products,          \* App: products, the catalog held by the App, by product id
    cartItems,         \* App: cartItems, the cart lines in insertion order
    activeTab,         \* App: activeTab
    appError,          \* App: error, the catalog error banner ("" stands for null)
    toast,             \* ToastProvider: the message shown last ("" = none yet)
    form,              \* Cart: customerPhone, paymentMethod, paymentStatus, discount, notes
    showUPIModal,      \* Cart: showUPIModal
    confirmRemoveId,   \* Cart: confirmRemoveId ("" stands for null)
    lastOrderRequest,  \* body of the order-creation request handed to fetch last,
                       \* as a sequence of at most one request (<<>> = none yet)
    inflight,          \* App.handleConfirmSale calls suspended at an await, by stage
    dash,              \* ProductsDashboard: list state and its fetch-effect requests
    hist,              \* SalesHistory: list state and its fetch-effect requests
    searchTerm,        \* ProductsDashboard: searchTerm, the text in the search box
    listState,         \* ProductsDashboard: listState (page, pageSize, q, sort)
    debouncedQ,        \* ProductsDashboard: debouncedQ
    catalogRequests,   \* the catalog request of each run of the dashboard's fetch
                       \* effect, in the order the runs issued them
    histPage,          \* SalesHistory: page
    orders,            \* SalesHistory: orders, as the payment status shown for each
                       \* order id ("none": the order is not in the list)
    editingOrderId,    \* SalesHistory: editingOrderId ("" stands for null)
    editForm,          \* EditOrder: formData.paymentStatus as a sequence of at most
                       \* one value (<<>>: the order is still being loaded)
    serverOrders,      \* the backend's orders: payment status by order id
    orderCalls,        \* the order requests (get, update, cancel) sent by the
                       \* order history and the edit view and not yet answered
    isAuthenticated,   \* App: isAuthenticated
    showOTPVerification, \* App: showOTPVerification
    fallbackShown,     \* ProtectedRoute rendered its fallback, a Login, when App
                       \* rendered last
    token,             \* ApiService.token, the bearer token in memory ("" = null)
    storedToken,       \* localStorage 'auth-token' ("" = no such item)
    authError,         \* Login / VerifyOTP: error, of whichever of them is mounted
    otp,               \* VerifyOTP: otp, the six one-character inputs
    authCalls,         \* the login, verify and resend requests not yet answered
    loads,             \* App.loadProducts calls not yet answered, apart from the
                       \* one awaited by handleConfirmSale
    manage,            \* ManageProducts: currentView and the product being edited
    productForm,       \* EditProduct: formData and the size row
    bulk,              \* BulkUpload: selectedFile, uploadResult, error
    batchView,         \* UploadHistory: batches, rollbackingId, and its
                       \* loadBatches calls not yet answered
    productCalls,      \* the add-product and update-product requests in flight
    uploadCalls,       \* the bulk-upload requests in flight
    rollbacks,         \* per upload batch: the rollback requests in flight, those
                       \* of the mounted UploadHistory and those of unmounted ones
    rolledBack,        \* the upload batches the backend has rolled back
    changeLoads        \* the loadProducts calls made through onProductsChange:
                       \* how many but the last are unanswered, how the last
                       \* one ended, and whether products is its response

vars == <<products, cartItems, activeTab, appError, toast, form, showUPIModal,
          confirmRemoveId, lastOrderRequest, inflight, dash, hist,
          searchTerm, listState, debouncedQ, catalogRequests, histPage,
          orders, editingOrderId, editForm, serverOrders, orderCalls,
          isAuthenticated, showOTPVerification, fallbackShown, token, storedToken,
          authError, otp, authCalls, loads, manage, productForm, bulk, batchView,
          productCalls, uploadCalls, rollbacks, rolledBack, changeLoads>>

cartView == <<form, showUPIModal, confirmRemoveId>>
orderVars == <<lastOrderRequest, inflight>>
searchVars == <<searchTerm, listState, debouncedQ, catalogRequests>>
dashVars == <<dash, searchVars>>
orderView == <<orders, editingOrderId, editForm>>
histVars == <<hist, histPage, orderView>>
listVars == <<dashVars, histVars>>
\* the state that the cart, the checkout and the list views do not touch
tokenVars == <<token, storedToken>>
authLocal == <<authError, otp, authCalls>>
authView == <<isAuthenticated, showOTPVerification, fallbackShown, authLocal>>
manageView == <<manage, productForm, bulk, batchView, productCalls, uploadCalls,
                rollbacks>>
backend == <<serverOrders, orderCalls, rolledBack, changeLoads>>
\* the same, apart from the token store
beyondToken == <<backend, authView, loads, manageView>>
\* the same, apart from what a render of App decides
beyondRender == <<backend, loads, tokenVars>>
elsewhere == <<beyondToken, tokenVars>>

----------------------------------------------------------------------------
(* Bounds of the model *)

\* largest per-size stock figure a catalog response carries
MaxStock == 2
\* largest number of handleConfirmSale calls suspended at the same time
MaxInFlight == 2
\* largest number of fetch-effect runs of one list view
MaxRequests == 3
\* last page of a list view the operator pages to
MaxPage == 2
\* largest number of order requests (get, update, cancel) in flight together
MaxOrderCalls == 2
\* add-product and update-product requests in flight at once
MaxProductCalls == 1

----------------------------------------------------------------------------
(* Catalog *)

ProductIds == {"p1", "p2"}

\* the size labels a product is stocked in, in the order of Product.sizes
SizesOf(id) == IF id = "p1" THEN <<"S", "M">> ELSE <<"S">>

\* p1 is the product of the worked example; p2 is stored with a retail price
\* below its wholesale price, which storage does not rule out
RetailOf(id) == IF id = "p1" THEN 500 ELSE 100
WholesaleOf(id) == IF id = "p1" THEN 300 ELSE 120

\* a Product as the backend returns it; stock[i] is the quantity of size i
MakeProduct(id, stock) ==
    [_id |-> id,
     retailPrice |-> RetailOf(id),
     wholesalePrice |-> WholesaleOf(id),
     sizes |-> [i \in 1..Len(SizesOf(id)) |->
                   [size |-> SizesOf(id)[i], quantity |-> stock[i]]]]

ProductVersions(id) ==
    {MakeProduct(id, stock) : stock \in [1..Len(SizesOf(id)) -> 0..MaxStock]}

\* every product list the backend can answer a catalog request with
Catalogs == {c \in [ProductIds -> UNION {ProductVersions(id) : id \in ProductIds}] :
                \A id \in ProductIds : c[id]._id = id}

FullCatalog ==
    [id \in ProductIds |-> MakeProduct(id, [i \in 1..Len(SizesOf(id)) |-> MaxStock])]

Tabs == {"products", "cart", "history"}

\* the orders the backend holds
OrderIds == {"o1", "o2"}
\* SalesHistory: useState<Order[]>([])
NoOrders == [id \in OrderIds |-> "none"]

\* App: useState<Product[]>([])
NoProducts == <<>>
\* VerifyOTP: useState(['', '', '', '', '', ''])
NoOtp == [i \in 1..6 |-> ""]

----------------------------------------------------------------------------
(* App: cart handlers *)

\* product.sizes.find(s => s.size === size)?.quantity || 0
SizeStock(product, size) ==
    LET hits == {i \in 1..Len(product.sizes) : product.sizes[i].size = size}
    IN  IF hits = {} THEN 0
        ELSE product.sizes[CHOOSE i \in hits : \A j \in hits : i <= j].quantity

\* the line appended by handleAddToCart; the product fields that no cart or
\* checkout code reads (name, category, sizes, ...) are left out
NewCartItem(product, size, sizeStock) ==
    [_id |-> product._id,
     retailPrice |-> product.retailPrice,
     wholesalePrice |-> product.wholesalePrice,
     selectedSize |-> size,
     cartQuantity |-> 1,
     quantity |-> sizeStock]

SameLine(item, id, size) == item._id = id /\ item.selectedSize = size

\* the ceiling handleAddToCart compares an existing line against
AddCeiling(existingItem, sizeStock) == sizeStock

\* the updater handleAddToCart passes to setCartItems
AddToCartUpdater(prev, product, size, sizeStock) ==
    LET hits == {i \in 1..Len(prev) : SameLine(prev[i], product._id, size)}
    IN  IF hits # {}
        THEN LET existingItem == prev[CHOOSE i \in hits : \A j \in hits : i <= j]
             IN  IF existingItem.cartQuantity < AddCeiling(existingItem, sizeStock)
                 THEN [i \in 1..Len(prev) |->
                          IF SameLine(prev[i], product._id, size)
                          THEN [prev[i] EXCEPT !.cartQuantity = @ + 1]
                          ELSE prev[i]]
                 ELSE prev
        ELSE Append(prev, NewCartItem(product, size, sizeStock))

\* the toast handleAddToCart shows, if any
AddToCartToast(prev, product, size, sizeStock) ==
    IF sizeStock = 0 THEN "Selected size is out of stock"
    ELSE IF \E i \in 1..Len(prev) :
               /\ SameLine(prev[i], product._id, size)
               /\ \A j \in 1..(i - 1) : ~SameLine(prev[j], product._id, size)
               /\ ~(prev[i].cartQuantity < AddCeiling(prev[i], sizeStock))
         THEN "No more stock available for this size"
         ELSE toast

\* which lines handleUpdateQuantity and handleRemoveItem take for the line `id`
MatchesId(item, id) == item._id = id

FilterOut(seq, id) ==
    LET F[i \in 0..Len(seq)] ==
            IF i = 0 THEN <<>>
            ELSE IF MatchesId(seq[i], id) THEN F[i - 1] ELSE Append(F[i - 1], seq[i])
    IN  F[Len(seq)]

\* handleRemoveItem: prev.filter(item => item._id !== id)
RemoveItemUpdater(prev, id) == FilterOut(prev, id)

\* handleUpdateQuantity
UpdateQuantityUpdater(prev, id, quantity) ==
    IF quantity <= 0
    THEN RemoveItemUpdater(prev, id)
    ELSE [i \in 1..Len(prev) |->
             IF MatchesId(prev[i], id)
             THEN [prev[i] EXCEPT !.cartQuantity = quantity]
             ELSE prev[i]]

----------------------------------------------------------------------------
(* Cart view: local state *)

PaymentMethods == {"CASH", "UPI"}
PaymentStatuses == {"PENDING", "PAID"}

\* the useState initial values of the Cart component
InitialForm ==
    [customerPhone |-> <<>>,
     paymentMethod |-> "CASH",
     paymentStatus |-> "PENDING",
     discount |-> <<>>,
     notes |-> <<>>]

\* no modal dialog of the cart view covers the page
NoOverlay == ~showUPIModal /\ confirmRemoveId = ""

\* the upload batches the backend holds
BatchIds == {"b1", "b2"}

\* ManageProducts: useState<ManageView>('list'), useState<Product | null>(null)
InitialManage == [view |-> "list", editing |-> ""]
\* EditProduct: formData, and sizes, which the model keeps to one row
\* { size: '', quantity: 0 } whose label can be edited
InitialProductForm ==
    [name |-> <<>>, category |-> <<>>, wholesalePrice |-> <<>>, retailPrice |-> <<>>,
     size |-> <<>>, isLoading |-> FALSE]
\* BulkUpload: selectedFile, isUploading, uploadResult, error
InitialBulk ==
    [selectedFile |-> <<>>, isUploading |-> FALSE, uploadResult |-> <<>>, error |-> ""]
\* UploadHistory: batches, rollbackingId
InitialBatchView == [batches |-> {}, rollbackingId |-> "", loading |-> 0]

\* the useState initial values of a list view, before its first effect run;
\* isLoading starts false in ProductsDashboard and true in SalesHistory
InitialList(loading) ==
    [data |-> 0, totalCount |-> 0, error |-> 0, isLoading |-> loading, reqs |-> <<>>]

\* ProductsDashboard: useState initial value of listState
InitialListState == [page |-> 1, pageSize |-> 12, q |-> <<>>, sort |-> "name:asc"]

\* the tabs that App.renderActiveTab wraps in ProtectedRoute
GuardedTabs == {"history", "manage-products"}
\* ActiveTab; the model keeps no state of the ManageProducts view
AppTabs == Tabs \cup {"manage-products"}

\* App's render: VerifyOTP while showOTPVerification, else Login while
\* !isAuthenticated, else the active tab and the Navigation
Screen ==
    IF showOTPVerification THEN "otp" ELSE IF ~isAuthenticated THEN "login" ELSE "app"

\* ProtectedRoute: const isAuthed = !!ApiService.getToken(), evaluated when
\* App renders a guarded tab
Fallback(isAuth, showOtp, tab, tok) ==
    isAuth /\ ~showOtp /\ tab \in GuardedTabs /\ tok = ""

\* the Login or VerifyOTP instance that a render of App keeps mounted
AuthComponent(isAuth, showOtp, fallback) ==
    IF showOtp THEN "VerifyOTP"
    ELSE IF ~isAuth THEN "Login"
    ELSE IF fallback THEN "fallback Login" ELSE ""

\* the tab whose view is on screen, "" while a Login or VerifyOTP replaces it
MountedView == IF Screen = "app" /\ ~fallbackShown THEN activeTab ELSE ""
TabShown(tab) == MountedView = tab

\* the requests of a Login or VerifyOTP that has been unmounted: the handler
\* awaiting one still runs, its calls to the unmounted component's setters
\* do nothing
Gone(calls) == {[kind |-> c.kind, live |-> FALSE] : c \in calls}

\* the same for the requests of an EditProduct or BulkUpload
Unmounted(calls) == {[c EXCEPT !.live = "gone"] : c \in calls}

\* the same for the rollback requests of an UploadHistory
Left(calls) ==
    [b \in DOMAIN calls |-> [live |-> 0, gone |-> calls[b].live + calls[b].gone]]

\* App renders with these values of isAuthenticated, showOTPVerification and
\* activeTab, ApiService.getToken() giving tok. Cart, ProductsDashboard,
\* SalesHistory, Login and VerifyOTP each live only while they are rendered,
\* so a view that is no longer rendered loses its local state; the cleanup
\* of a list view's fetch effect aborts its request, and whatever that
\* request settles with reaches no mounted view. err and calls are the error
\* and the requests of the Login or VerifyOTP if it stays mounted
AppRender(isAuth, showOtp, tab, tok, err, calls) ==
    LET fallback == Fallback(isAuth, showOtp, tab, tok)
        view == IF isAuth /\ ~showOtp /\ ~fallback THEN tab ELSE ""
        kept == AuthComponent(isAuth, showOtp, fallback)
                  = AuthComponent(isAuthenticated, showOTPVerification, fallbackShown)
    IN  /\ isAuthenticated' = isAuth
        /\ showOTPVerification' = showOtp
        /\ activeTab' = tab
        /\ fallbackShown' = fallback
        /\ authError' = IF kept THEN err ELSE ""
        /\ otp' = IF kept THEN otp ELSE NoOtp
        /\ authCalls' = IF kept THEN calls ELSE Gone(calls)
        /\ IF MountedView = "cart" /\ view # "cart"
           THEN /\ form' = InitialForm
                /\ showUPIModal' = FALSE
                /\ confirmRemoveId' = ""
           ELSE UNCHANGED cartView
        /\ IF MountedView = "products" /\ view # "products"
           THEN /\ dash' = InitialList(FALSE)
                /\ searchTerm' = <<>>
                /\ listState' = InitialListState
                /\ debouncedQ' = <<>>
                /\ catalogRequests' = <<>>
           ELSE UNCHANGED dashVars
        /\ IF MountedView = "history" /\ view # "history"
           THEN /\ hist' = InitialList(TRUE)
                /\ histPage' = 1
                /\ orders' = NoOrders
                /\ editingOrderId' = ""
                /\ editForm' = <<>>
           ELSE UNCHANGED histVars
        /\ IF MountedView = "manage-products" /\ view # "manage-products"
           THEN /\ manage' = InitialManage
                /\ productForm' = InitialProductForm
                /\ bulk' = InitialBulk
                /\ batchView' = InitialBatchView
                /\ productCalls' = Unmounted(productCalls)
                /\ uploadCalls' = Unmounted(uploadCalls)
                /\ rollbacks' = Left(rollbacks)
           ELSE UNCHANGED manageView

\* a setter of App's state other than the three above has been called (the
\* toasts are ToastProvider's state, and showing one renders no App)
Rerender(tok) ==
    AppRender(isAuthenticated, showOTPVerification, activeTab, tok, authError, authCalls)

\* the dependency list of a fetch effect that also runs on a new error
EffectDeps_WithError(isAuth, tab, err) == <<isAuth, tab, err>>

\* App's second effect: }, [isAuthenticated, activeTab])
EffectDeps(isAuth, tab, err) == <<isAuth, tab>>

\* the loadProducts() calls that effect makes after a render of App with
\* these values: it runs when a dependency has changed, and loads if
\* isAuthenticated && activeTab === 'manage-products' && products.length === 0
EffectLoads(isAuth, tab, err, list) ==
    IF /\ EffectDeps(isAuth, tab, err) # EffectDeps(isAuthenticated, activeTab, appError)
       /\ isAuth /\ tab = "manage-products" /\ list = NoProducts
    THEN 1 ELSE 0

\* App.setActiveTab
SetActiveTab(tab) ==
    AppRender(isAuthenticated, showOTPVerification, tab, token, authError, authCalls)

----------------------------------------------------------------------------
(* Actions: catalog and cart *)

\* Navigation: a tab button
Navigate(tab) ==
    /\ Screen = "app"
    /\ NoOverlay
    /\ tab # activeTab
    /\ SetActiveTab(tab)
    /\ loads' = loads + EffectLoads(isAuthenticated, tab, appError, products)
    /\ loads' <= MaxInFlight
    /\ UNCHANGED <<backend, tokenVars, products, cartItems, toast, appError, orderVars>>

\* loadProducts resolving with a product list: setProducts(list)
LoadProducts(list) ==
    /\ products' = list
    /\ Rerender(token)
    /\ UNCHANGED <<beyondRender, cartItems, toast, appError, orderVars>>

\* ProductsDashboard size button: onAddToCart(product, size)
AddToCart(id, size) ==
    /\ TabShown("products")
    /\ id \in DOMAIN products
    /\ LET product == products[id]
           sizeStock == SizeStock(product, size)
       IN  /\ cartItems' = IF sizeStock = 0 THEN cartItems
                           ELSE AddToCartUpdater(cartItems, product, size, sizeStock)
           /\ toast' = AddToCartToast(cartItems, product, size, sizeStock)
    /\ UNCHANGED <<elsewhere, products, activeTab, cartView, appError, orderVars, listVars>>

\* Cart plus button of line i, disabled once cartQuantity >= quantity
Increment(i) ==
    /\ TabShown("cart") /\ NoOverlay
    /\ i \in 1..Len(cartItems)
    /\ ~(cartItems[i].cartQuantity >= cartItems[i].quantity)
    /\ cartItems' = UpdateQuantityUpdater(cartItems, cartItems[i]._id,
                                          cartItems[i].cartQuantity + 1)
    /\ UNCHANGED <<elsewhere, products, activeTab, toast, cartView, appError, orderVars, listVars>>

\* Cart minus button of line i, disabled once cartQuantity <= 1
Decrement(i) ==
    /\ TabShown("cart") /\ NoOverlay
    /\ i \in 1..Len(cartItems)
    /\ ~(cartItems[i].cartQuantity <= 1)
    /\ cartItems' = UpdateQuantityUpdater(cartItems, cartItems[i]._id,
                                          cartItems[i].cartQuantity - 1)
    /\ UNCHANGED <<elsewhere, products, activeTab, toast, cartView, appError, orderVars, listVars>>

\* Cart trash button of line i: setConfirmRemoveId(item._id)
AskRemove(i) ==
    /\ TabShown("cart") /\ NoOverlay
    /\ i \in 1..Len(cartItems)
    /\ confirmRemoveId' = cartItems[i]._id
    /\ UNCHANGED <<elsewhere, products, cartItems, activeTab, toast, form, showUPIModal,
                   appError, orderVars, listVars>>

\* ConfirmDialog onConfirm
ConfirmRemove ==
    /\ TabShown("cart")
    /\ confirmRemoveId # ""
    /\ cartItems' = RemoveItemUpdater(cartItems, confirmRemoveId)
    /\ confirmRemoveId' = ""
    /\ UNCHANGED <<elsewhere, products, activeTab, toast, form, showUPIModal, appError, orderVars, listVars>>

\* ConfirmDialog onCancel
CancelRemove ==
    /\ TabShown("cart")
    /\ confirmRemoveId # ""
    /\ confirmRemoveId' = ""
    /\ UNCHANGED <<elsewhere, products, cartItems, activeTab, toast, form, showUPIModal,
                   appError, orderVars, listVars>>

----------------------------------------------------------------------------
(* Cart view: totals *)

Digits == <<"0", "1", "2", "3", "4", "5", "6", "7", "8", "9">>

DigitValue(c) == (CHOOSE n \in 1..Len(Digits) : Digits[n] = c) - 1

\* the value of a run of decimal digits
DigitsValue(text) ==
    LET V[i \in 0..Len(text)] ==
            IF i = 0 THEN 0 ELSE V[i - 1] * 10 + DigitValue(text[i])
    IN  V[Len(text)]

\* parseFloat on what a number input hands to onChange: an optional minus
\* sign and decimal digits (an unparsable entry arrives as the empty text)
ParseFloat(text) ==
    IF Head(text) = "-" THEN 0 - DigitsValue(Tail(text)) ELSE DigitsValue(text)

Max(a, b) == IF a >= b THEN a ELSE b

\* cartItems.reduce((sum, item) => sum + f(item), 0), for the two f of the view
LineAmount(item) == item.retailPrice * item.cartQuantity
LineMargin(item) == (item.retailPrice - item.wholesalePrice) * item.cartQuantity

ReduceAmounts(items) ==
    LET R[i \in 0..Len(items)] ==
            IF i = 0 THEN 0 ELSE R[i - 1] + LineAmount(items[i])
    IN  R[Len(items)]

ReduceMargins(items) ==
    LET R[i \in 0..Len(items)] ==
            IF i = 0 THEN 0 ELSE R[i - 1] + LineMargin(items[i])
    IN  R[Len(items)]

subtotal == ReduceAmounts(cartItems)

\* discount ? parseFloat(discount) : 0
discountAmount == IF form.discount # <<>> THEN ParseFloat(form.discount) ELSE 0

totalAmount == Max(0, subtotal - discountAmount)

\* the profit computed without the discount taken off
totalProfit_DiscountDropped == ReduceMargins(cartItems)

totalProfit == ReduceMargins(cartItems) - discountAmount

\* the profit row of the summary: Math.max(0, totalProfit)
displayedProfit == Max(0, totalProfit)

\* the form is rendered only below the early return for an empty cart
FormShown == TabShown("cart") /\ NoOverlay /\ Len(cartItems) > 0

\* discount input onChange
SetDiscount(text) ==
    /\ FormShown
    /\ text # form.discount
    /\ form' = [form EXCEPT !.discount = text]
    /\ UNCHANGED <<elsewhere, products, cartItems, activeTab, toast, showUPIModal,
                   confirmRemoveId, appError, orderVars, listVars>>

----------------------------------------------------------------------------
(* Checkout: the form, the UPI confirmation step and order creation *)

\* String.prototype.trim on a typed text
RECURSIVE TrimStart(_)
TrimStart(text) ==
    IF text # <<>> /\ Head(text) = " " THEN TrimStart(Tail(text)) ELSE text

RECURSIVE TrimEnd(_)
TrimEnd(text) ==
    IF text # <<>> /\ text[Len(text)] = " "
    THEN TrimEnd(SubSeq(text, 1, Len(text) - 1))
    ELSE text

Trim(text) == TrimEnd(TrimStart(text))

\* an optional field of the request body: <<>> is undefined, <<v>> is v
\* text.trim() || undefined
TextOrUndefined(text) == IF Trim(text) = <<>> THEN <<>> ELSE <<Trim(text)>>
\* discountAmount || undefined
AmountOrUndefined(amount) == IF amount = 0 THEN <<>> ELSE <<amount>>

\* the selected status passed through
UPIPaymentStatus_AsSelected(selected) == selected

\* the payment status handleUPIPaymentReceived sends, given the selected one
UPIPaymentStatus(selected) == "PAID"

\* orderData built by Cart.handleConfirmSale
CashOrderData ==
    [customerPhone |-> TextOrUndefined(form.customerPhone),
     paymentMethod |-> form.paymentMethod,
     paymentStatus |-> form.paymentStatus,
     discount |-> AmountOrUndefined(discountAmount),
     notes |-> TextOrUndefined(form.notes)]

\* orderData built by Cart.handleUPIPaymentReceived
UPIOrderData ==
    [customerPhone |-> TextOrUndefined(form.customerPhone),
     paymentMethod |-> "UPI",
     paymentStatus |-> UPIPaymentStatus(form.paymentStatus),
     discount |-> AmountOrUndefined(discountAmount),
     notes |-> TextOrUndefined(form.notes)]

\* Cart.resetForm
ResetForm ==
    [customerPhone |-> <<>>,
     paymentMethod |-> "CASH",
     paymentStatus |-> "PAID",
     discount |-> <<>>,
     notes |-> <<>>]

\* orderItems of App.handleConfirmSale
OrderItems(items) ==
    [i \in 1..Len(items) |->
        [product |-> items[i]._id,
         size |-> items[i].selectedSize,
         qty |-> items[i].cartQuantity,
         price |-> items[i].retailPrice]]

\* apiOrderData of App.handleConfirmSale: { items: orderItems, ...orderData }
ApiOrderData(items, orderData) ==
    [items |-> OrderItems(items),
     customerPhone |-> orderData.customerPhone,
     paymentMethod |-> orderData.paymentMethod,
     paymentStatus |-> orderData.paymentStatus,
     discount |-> orderData.discount,
     notes |-> orderData.notes]

\* a guard that lets every cart through
CartIsEmpty_Never(items) == FALSE

\* the empty-cart guards of Cart.handleConfirmSale and App.handleConfirmSale
CartIsEmpty(items) == Len(items) = 0

EmptyCartWarning == "Cart is empty. Add items before checkout."

\* App.handleConfirmSale up to its first await: the guard, then createOrder,
\* whose request reaches fetch within the same call
AppHandleConfirmSale(orderData) ==
    IF CartIsEmpty(cartItems)
    THEN /\ toast' = EmptyCartWarning
         /\ UNCHANGED <<elsewhere, lastOrderRequest, inflight>>
    ELSE /\ lastOrderRequest' = <<ApiOrderData(cartItems, orderData)>>
         /\ inflight' = [inflight EXCEPT !.create = @ + 1]
         /\ UNCHANGED toast

\* every method finalised at the press
OpensUPIStep_Never(method) == FALSE

\* whether Cart.handleConfirmSale opens the UPI confirmation step
OpensUPIStep(method) == method = "UPI"

\* Cart.handleConfirmSale
CartHandleConfirmSale ==
    IF CartIsEmpty(cartItems)
    THEN /\ toast' = EmptyCartWarning
         /\ UNCHANGED <<elsewhere, form, showUPIModal, lastOrderRequest, inflight>>
    ELSE IF OpensUPIStep(form.paymentMethod)
         THEN /\ showUPIModal' = TRUE
              /\ UNCHANGED <<elsewhere, form, toast, lastOrderRequest, inflight>>
         ELSE /\ AppHandleConfirmSale(CashOrderData)
              /\ form' = ResetForm
              /\ UNCHANGED showUPIModal

\* the three checkout buttons of a non-empty cart, disabled while totalAmount <= 0
ConfirmSaleClick ==
    /\ FormShown
    /\ ~(totalAmount <= 0)
    /\ inflight.create + inflight.reload < MaxInFlight
    /\ CartHandleConfirmSale
    /\ UNCHANGED <<elsewhere, products, cartItems, activeTab, appError, confirmRemoveId, listVars>>

\* Cart.handleConfirmSale invoked while the cart is empty (the empty cart page
\* renders no checkout button; this is the handler's own guard)
ConfirmSaleOnEmptyCart ==
    /\ TabShown("cart")
    /\ Len(cartItems) = 0
    /\ CartHandleConfirmSale
    /\ UNCHANGED <<elsewhere, products, cartItems, activeTab, appError, confirmRemoveId, listVars>>

\* UPIPaymentModal: the close button and the Cancel button, both onClose
CloseUPIModal ==
    /\ TabShown("cart") /\ showUPIModal /\ Len(cartItems) > 0
    /\ showUPIModal' = FALSE
    /\ UNCHANGED <<elsewhere, products, cartItems, activeTab, appError, toast, form,
                   confirmRemoveId, orderVars, listVars>>

\* UPIPaymentModal "Payment Received": Cart.handleUPIPaymentReceived
UPIPaymentReceived ==
    /\ TabShown("cart") /\ showUPIModal /\ Len(cartItems) > 0
    /\ inflight.create + inflight.reload < MaxInFlight
    /\ showUPIModal' = FALSE
    /\ AppHandleConfirmSale(UPIOrderData)
    /\ form' = ResetForm
    /\ UNCHANGED <<elsewhere, products, cartItems, activeTab, appError, confirmRemoveId, listVars>>

SetCustomerPhone(text) ==
    /\ FormShown
    /\ text # form.customerPhone
    /\ form' = [form EXCEPT !.customerPhone = text]
    /\ UNCHANGED <<elsewhere, products, cartItems, activeTab, appError, toast, showUPIModal,
                   confirmRemoveId, orderVars, listVars>>

SetNotes(text) ==
    /\ FormShown
    /\ text # form.notes
    /\ form' = [form EXCEPT !.notes = text]
    /\ UNCHANGED <<elsewhere, products, cartItems, activeTab, appError, toast, showUPIModal,
                   confirmRemoveId, orderVars, listVars>>

SetPaymentMethod(method) ==
    /\ FormShown
    /\ method # form.paymentMethod
    /\ form' = [form EXCEPT !.paymentMethod = method]
    /\ UNCHANGED <<elsewhere, products, cartItems, activeTab, appError, toast, showUPIModal,
                   confirmRemoveId, orderVars, listVars>>

SetPaymentStatus(status) ==
    /\ FormShown
    /\ status # form.paymentStatus
    /\ form' = [form EXCEPT !.paymentStatus = status]
    /\ UNCHANGED <<elsewhere, products, cartItems, activeTab, appError, toast, showUPIModal,
                   confirmRemoveId, orderVars, listVars>>

\* how an order-creation request can end: a body with an order id, a body
\* without one, a non-2xx response, no response at all
CreateOutcomes == {"order", "no id", "http error", "network error"}

\* ApiService.setToken and clearToken: the field and the localStorage item
SetToken(t) == token' = t /\ storedToken' = t

\* a clearToken() that forgets the localStorage item
ClearToken_MemoryOnly == token' = "" /\ UNCHANGED storedToken

ClearToken == token' = "" /\ storedToken' = ""

\* no response taken for a 401
Unauthorized_Never(outcome) == FALSE

\* ApiService.request: res.status === 401
Unauthorized(outcome) == outcome = "unauthorized"

\* ApiService.request with the response in hand, before it returns the body
\* or throws: if (res.status === 401) this.clearToken()
ReceiveResponse(outcome) ==
    IF Unauthorized(outcome) THEN ClearToken ELSE UNCHANGED tokenVars

Throws(outcome) == outcome \in {"unauthorized", "http error", "network error"}

\* every body taken for a created order
ResponseHasId_Any(outcome) == TRUE

\* if (response._id)
ResponseHasId(outcome) == outcome = "order"

\* App.handleConfirmSale resumed after await ApiService.createOrder: on an
\* order id it calls loadProducts and suspends again, otherwise it reports
OrderSettled(outcome) ==
    /\ inflight.create > 0
    /\ ReceiveResponse(outcome)
    /\ IF Throws(outcome)
       THEN /\ toast' = "Error creating order. Please try again."
            /\ inflight' = [inflight EXCEPT !.create = @ - 1]
       ELSE IF ResponseHasId(outcome)
            THEN /\ inflight' = [create |-> inflight.create - 1,
                                 reload |-> inflight.reload + 1]
                 /\ UNCHANGED toast
            ELSE /\ toast' = "Failed to create order"
                 /\ inflight' = [inflight EXCEPT !.create = @ - 1]
    /\ UNCHANGED <<beyondToken, products, cartItems, activeTab, appError, cartView,
                   lastOrderRequest, listVars>>

\* App.handleConfirmSale resumed after await loadProducts(), which has set the
\* products from the response (<<list>>) or, on a failure (<<>>), the error
\* banner: clear the cart, switch to the history tab, report success
ReloadSettled(response) ==
    /\ inflight.reload > 0
    /\ inflight' = [inflight EXCEPT !.reload = @ - 1]
    /\ IF response # <<>>
       THEN products' = response[1] /\ UNCHANGED appError
       ELSE appError' = "Failed to load products" /\ UNCHANGED products
    /\ cartItems' = <<>>
    /\ SetActiveTab("history")
    /\ toast' = "Order created successfully"
    /\ UNCHANGED <<beyondRender, lastOrderRequest>>

----------------------------------------------------------------------------
(* List views: the fetch effects of ProductsDashboard and SalesHistory *)

(* A view holds data, totalCount and error, each tagged with the number of   *)
(* the request whose outcome put it there (0: the initial value or null),    *)
(* its isLoading flag, and reqs, one entry per run of its fetch effect:      *)
(*   "pending"    the request is in flight and its signal is not aborted     *)
(*   "aborted"    the effect's cleanup has aborted its controller, and the   *)
(*                request's promise has not settled yet                      *)
(*   "applied"    the promise settled and the view took its outcome over     *)
(*   "discarded"  the promise settled and the view dropped its outcome       *)

ServerOutcomes == {"ok", "failed"}

\* a non-2xx answer whose body carries the message "Query Aborted"
RefusedAsAborted == "refused: Query Aborted"
\* the outcomes of a list request, that one included
ApiOutcomes == ServerOutcomes \cup {RefusedAsAborted}

\* message of the ApiError thrown for a non-2xx answer:
\* (data && (data.message || data.error)) || 'Request failed'
MessageOf(outcome) ==
    IF outcome = RefusedAsAborted
    THEN <<"Q", "u", "e", "r", "y", " ", "A", "b", "o", "r", "t", "e", "d">>
    ELSE <<"R", "e", "q", "u", "e", "s", "t", " ", "f", "a", "i", "l", "e", "d">>

\* the i flag of the pattern, on the capitals that the messages hold
LowerCase(c) == CASE c = "A" -> "a" [] c = "Q" -> "q" [] c = "R" -> "r" [] OTHER -> c

\* /aborted/i.test(e?.message || '')
MatchesAborted(message) ==
    \E i \in 1..Len(message) :
        /\ i + 6 <= Len(message)
        /\ [j \in 1..7 |-> LowerCase(message[i + j - 1])]
             = <<"a", "b", "o", "r", "t", "e", "d">>

\* ApiService.request under an AbortSignal: fetch (or the reading of the
\* body) of an aborted request rejects with an AbortError; the catch block,
\* which also catches the ApiError thrown for a non-2xx answer, reports with
\* code ABORTED what is named AbortError or has a message matching
\* /aborted/i; otherwise the response or the failure comes through
RequestResult(status, outcome) ==
    IF status = "aborted" \/ (outcome # "ok" /\ MatchesAborted(MessageOf(outcome)))
    THEN "ABORTED"
    ELSE outcome

\* the effect's cleanup, controller.abort(), on the previous run's request
AbortPrevious(reqs) ==
    [k \in 1..Len(reqs) |-> IF reqs[k] = "pending" THEN "aborted" ELSE reqs[k]]

\* a catch that reports every rejection
DashIgnoresError_Never(result) == FALSE

\* ProductsDashboard catch: err?.code === 'ABORTED' || err?.aborted
DashIgnoresError(result) == result = "ABORTED"

\* SalesHistory: if (controller.signal.aborted) return
HistReturnsEarly(status) == status = "aborted"

\* the body of a list view's fetch effect, after the previous run's cleanup:
\* setIsLoading(true), setError(null) and a new request
RunFetchEffect(view) ==
    [view EXCEPT !.reqs = Append(AbortPrevious(@), "pending"),
                 !.isLoading = TRUE,
                 !.error = 0]

\* shortest text the search box passes on as a search term
MinSearchLength == 2

\* search box onChange: q: val.length >= 2 ? val : ''
QueryOf(val) == IF Len(val) >= MinSearchLength THEN val ELSE <<>>

\* the fetcher the effect picks: searchProducts({q, page, limit}) when
\* debouncedQ is not empty, else getAllProducts({page, pageSize, sortBy, sortDir})
Fetcher(ls, dq) ==
    IF dq # <<>>
    THEN [endpoint |-> "search", q |-> dq, page |-> ls.page,
          pageSize |-> ls.pageSize, sort |-> ""]
    ELSE [endpoint |-> "list", q |-> <<>>, page |-> ls.page,
          pageSize |-> ls.pageSize, sort |-> ls.sort]

\* the dependency list of the fetch effect
FetchDeps(ls, dq) == <<ls.page, ls.pageSize, dq, ls.sort>>

\* a run of the ProductsDashboard fetch effect with the values the view
\* holds (the run after mount; in the list-request specification, a run
\* whose change of page, page size, debounced term or sort is left open)
DashFetch ==
    /\ Len(dash.reqs) < MaxRequests
    /\ dash' = RunFetchEffect(dash)
    /\ catalogRequests' = Append(catalogRequests, Fetcher(listState, debouncedQ))
    /\ UNCHANGED <<elsewhere, searchTerm, listState, debouncedQ, products, cartItems,
                   activeTab, appError, toast, cartView, orderVars, histVars>>

\* the promise of the dashboard's request k settles: then / catch / finally
DashSettle(k, outcome) ==
    /\ k \in 1..Len(dash.reqs)
    /\ dash.reqs[k] \in {"pending", "aborted"}
    /\ LET result == RequestResult(dash.reqs[k], outcome)
       IN  dash' =
             IF result = "ok"
             THEN [dash EXCEPT !.data = k, !.totalCount = k, !.isLoading = FALSE,
                               !.reqs[k] = "applied"]
             ELSE IF DashIgnoresError(result)
                  THEN [dash EXCEPT !.isLoading = FALSE, !.reqs[k] = "discarded"]
                  ELSE [dash EXCEPT !.error = k, !.isLoading = FALSE,
                                    !.reqs[k] = "applied"]
    /\ ReceiveResponse(outcome)
    /\ UNCHANGED <<beyondToken, products, cartItems, activeTab, appError, toast, cartView,
                   orderVars, searchVars, histVars>>

\* a run of the SalesHistory fetch effect (mount, or a change of filters,
\* page, page size, sort or search text)
HistFetch ==
    /\ Len(hist.reqs) < MaxRequests
    /\ hist' = [hist EXCEPT !.reqs = Append(AbortPrevious(@), "pending"),
                            !.isLoading = TRUE,
                            !.error = 0]
    /\ UNCHANGED <<elsewhere, products, cartItems, activeTab, appError, toast, cartView,
                   orderVars, dashVars, histPage, orderView>>

\* run() of the order history's request k resumes after its await
HistSettle(k, outcome) ==
    /\ k \in 1..Len(hist.reqs)
    /\ hist.reqs[k] \in {"pending", "aborted"}
    /\ LET result == RequestResult(hist.reqs[k], outcome)
       IN  hist' =
             IF HistReturnsEarly(hist.reqs[k])
             THEN [hist EXCEPT !.reqs[k] = "discarded"]
             ELSE IF result = "ok"
                  THEN [hist EXCEPT !.data = k, !.totalCount = k, !.isLoading = FALSE,
                                    !.reqs[k] = "applied"]
                  ELSE [hist EXCEPT !.error = k, !.isLoading = FALSE,
                                    !.reqs[k] = "applied"]
    /\ orders' = IF ~HistReturnsEarly(hist.reqs[k]) /\ outcome = "ok"
                 THEN serverOrders  \* setOrders(response.orders)
                 ELSE orders
    /\ ReceiveResponse(outcome)
    /\ UNCHANGED <<beyondToken, products, cartItems, activeTab, appError, toast, cartView,
                   orderVars, dashVars, histPage, editingOrderId, editForm>>

----------------------------------------------------------------------------
(* Products dashboard: the search box, sort, page size and paging *)

Sorts == {"name:asc", "name:desc"}
PageSizes == {8, 12}

\* the dashboard is on screen and its effects have run after mount
DashMounted == TabShown("products") /\ Len(dash.reqs) >= 1

\* React commits new values of listState and debouncedQ: the fetch effect
\* runs again only if one of its dependencies differs from the last render
DashRender(ls, dq) ==
    /\ listState' = ls
    /\ debouncedQ' = dq
    /\ IF FetchDeps(ls, dq) # FetchDeps(listState, debouncedQ)
       THEN /\ Len(dash.reqs) < MaxRequests
            /\ dash' = RunFetchEffect(dash)
            /\ catalogRequests' = Append(catalogRequests, Fetcher(ls, dq))
       ELSE UNCHANGED <<dash, catalogRequests>>

dashOutside == <<elsewhere, products, cartItems, activeTab, appError, toast, cartView,
                 orderVars, histVars>>

\* the run of the fetch effect after the dashboard mounted
DashMount ==
    /\ TabShown("products")
    /\ Len(dash.reqs) = 0
    /\ DashFetch

\* the operator edits the search box
SearchChange(val) ==
    /\ DashMounted
    /\ searchTerm' = val
    /\ DashRender([listState EXCEPT !.q = QueryOf(val), !.page = 1], debouncedQ)
    /\ UNCHANGED dashOutside

\* the 500 ms timer of the debounce effect fires: setDebouncedQ(listState.q);
\* every change of listState.q clears the timer and starts a new one, and a
\* timer that finds debouncedQ equal to listState.q changes nothing
DebounceFires ==
    /\ DashMounted
    /\ debouncedQ # listState.q
    /\ DashRender(listState, listState.q)
    /\ UNCHANGED <<searchTerm, dashOutside>>

\* the operator picks another entry of the sort select
SortChange(sort) ==
    /\ DashMounted
    /\ sort # listState.sort
    /\ DashRender([listState EXCEPT !.sort = sort], debouncedQ)
    /\ UNCHANGED <<searchTerm, dashOutside>>

\* the operator picks another entry of the items-per-page select
PageSizeChange(size) ==
    /\ DashMounted
    /\ size # listState.pageSize
    /\ DashRender([listState EXCEPT !.pageSize = size, !.page = 1], debouncedQ)
    /\ UNCHANGED <<searchTerm, dashOutside>>

\* Next, offered while a response with more than one page is shown
NextPage ==
    /\ DashMounted
    /\ dash.data # 0
    /\ listState.page < MaxPage
    /\ DashRender([listState EXCEPT !.page = @ + 1], debouncedQ)
    /\ UNCHANGED <<searchTerm, dashOutside>>

\* Prev, enabled from page 2 on
PrevPage ==
    /\ DashMounted
    /\ dash.data # 0
    /\ listState.page > 1
    /\ DashRender([listState EXCEPT !.page = @ - 1], debouncedQ)
    /\ UNCHANGED <<searchTerm, dashOutside>>

\* ErrorBanner onRetry of the dashboard: setListState(prev => ({ ...prev })),
\* a copy of listState with the same page, pageSize, q and sort
DashRetry ==
    /\ DashMounted
    /\ ~dash.isLoading
    /\ dash.error # 0
    /\ DashRender(listState, debouncedQ)
    /\ UNCHANGED <<searchTerm, dashOutside>>

----------------------------------------------------------------------------
(* Order history: paging, filters and Retry *)

\* what paging, filtering and Retry leave alone
histOutside == <<elsewhere, products, cartItems, activeTab, appError, toast, cartView,
                 orderVars, dashVars, orderView>>

\* the order history is on screen and its effect has run after mount
HistMounted == TabShown("history") /\ Len(hist.reqs) >= 1

\* React commits a new value of page: the fetch effect runs again only if
\* the value differs from the last render
HistRender(page) ==
    /\ histPage' = page
    /\ IF page # histPage
       THEN /\ Len(hist.reqs) < MaxRequests
            /\ hist' = RunFetchEffect(hist)
       ELSE UNCHANGED hist

\* the run of the fetch effect after the order history mounted
HistMount ==
    /\ TabShown("history")
    /\ Len(hist.reqs) = 0
    /\ HistFetch

\* Next, offered while a response with more than one page is shown
HistNextPage ==
    /\ HistMounted
    /\ hist.data # 0
    /\ histPage < MaxPage
    /\ HistRender(histPage + 1)
    /\ UNCHANGED histOutside

\* Prev: setPage(p => Math.max(1, p - 1))
HistPrevPage ==
    /\ HistMounted
    /\ hist.data # 0
    /\ histPage > 1
    /\ HistRender(Max(1, histPage - 1))
    /\ UNCHANGED histOutside

\* a payment-status tab or a date filter: setFilters(prev => ({ ...prev, ... }))
\* and setPage(1); filters is a new object, so the fetch effect runs again
HistFilterChange ==
    /\ HistMounted
    /\ Len(hist.reqs) < MaxRequests
    /\ hist' = RunFetchEffect(hist)
    /\ histPage' = 1
    /\ UNCHANGED histOutside

\* SalesHistory.loadOrders: setPage(p => p)
LoadOrders == HistRender(histPage)

\* ErrorBanner onRetry of the order history: loadOrders()
HistRetry ==
    /\ HistMounted
    /\ hist.error # 0
    /\ LoadOrders
    /\ UNCHANGED histOutside

----------------------------------------------------------------------------
(* Order history and edit view: editing and cancelling an order *)

OrderStatuses == {"PENDING", "PAID", "CANCELLED"}

\* what the order operations leave alone
ordersApart == <<products, cartItems, activeTab, appError, toast, cartView, orderVars,
                 dashVars, hist, histPage, authView, loads, manageView, rolledBack,
                 changeLoads>>
ordersOutside == <<ordersApart, tokenVars>>

\* the list of orders is rendered (not replaced by the edit view)
HistListShown == HistMounted /\ editingOrderId = ""

\* the order card renders Invoice, Edit and Cancel:
\* order.paymentStatus !== 'CANCELLED'
ActionsOffered(id) == orders[id] \notin {"none", "CANCELLED"}

\* if (!confirm(...)) return
Confirmed(answer) == answer

\* room for one more order request
CanCall == Cardinality(orderCalls) < MaxOrderCalls

CancelCall(id, from) == [kind |-> "cancel", id |-> id, from |-> from, status |-> ""]
UpdateCall(id, status) == [kind |-> "update", id |-> id, from |-> "edit", status |-> status]
GetCall(id) == [kind |-> "get", id |-> id, from |-> "edit", status |-> ""]

\* SalesHistory.handleCancelOrder up to its await: the prompt, then the request
HandleCancelOrder(id, answer) ==
    /\ HistListShown
    /\ ActionsOffered(id)
    /\ CanCall
    /\ IF Confirmed(answer)
       THEN orderCalls' = orderCalls \cup {CancelCall(id, "list")}
       ELSE UNCHANGED orderCalls
    /\ UNCHANGED <<ordersOutside, orderView, serverOrders>>

\* the Edit button: setEditingOrderId(order._id); EditOrder mounts and its
\* effect calls loadOrder
EditClick(id) ==
    /\ HistListShown
    /\ ActionsOffered(id)
    /\ CanCall
    /\ editingOrderId' = id
    /\ editForm' = <<>>
    /\ orderCalls' = orderCalls \cup {GetCall(id)}
    /\ UNCHANGED <<ordersOutside, orders, serverOrders>>

\* EditOrder.loadOrder resumed after await ApiService.getOrder
LoadOrderSettled(id, outcome) ==
    /\ GetCall(id) \in orderCalls
    /\ orderCalls' = orderCalls \ {GetCall(id)}
    /\ IF editingOrderId = id
       THEN IF outcome = "ok"
            THEN editForm' = <<serverOrders[id]>> /\ UNCHANGED editingOrderId
            ELSE editingOrderId' = "" /\ editForm' = <<>>  \* alert, onBack()
       ELSE UNCHANGED <<editingOrderId, editForm>>
    /\ ReceiveResponse(outcome)
    /\ UNCHANGED <<ordersApart, orders, serverOrders>>

\* the edit view shows its form
EditFormShown == TabShown("history") /\ editingOrderId # "" /\ editForm # <<>>

\* the payment status select of the edit view
EditSetStatus(status) ==
    /\ EditFormShown
    /\ editForm' = <<status>>
    /\ UNCHANGED <<ordersOutside, orders, editingOrderId, serverOrders, orderCalls>>

\* EditOrder.handleSave up to its await: updateOrder(orderId, formData); the
\* Save button is disabled while isSaving
HandleSave ==
    /\ EditFormShown
    /\ CanCall
    /\ ~\E call \in orderCalls : call.kind = "update" /\ call.id = editingOrderId
    /\ orderCalls' = orderCalls \cup {UpdateCall(editingOrderId, editForm[1])}
    /\ UNCHANGED <<ordersOutside, orderView, serverOrders>>

\* EditOrder.handleCancel up to its await: the prompt, then the request
HandleCancel(answer) ==
    /\ EditFormShown
    /\ CanCall
    /\ IF Confirmed(answer)
       THEN orderCalls' = orderCalls \cup {CancelCall(editingOrderId, "edit")}
       ELSE UNCHANGED orderCalls
    /\ UNCHANGED <<ordersOutside, orderView, serverOrders>>

\* the back arrow of the edit view: onBack()
EditBack ==
    /\ EditFormShown
    /\ editingOrderId' = ""
    /\ editForm' = <<>>
    /\ UNCHANGED <<ordersOutside, orders, serverOrders, orderCalls>>

\* what the history view does when told that an order changed: loadOrders(),
\* and the edit view's onBack() after it
AfterOrderChanged(call) ==
    /\ IF TabShown("history") THEN LoadOrders ELSE UNCHANGED <<hist, histPage>>
    /\ IF call.from = "edit" /\ editingOrderId = call.id
       THEN editingOrderId' = "" /\ editForm' = <<>>
       ELSE UNCHANGED <<editingOrderId, editForm>>

\* a cancel or update request is answered and its handler resumes: on success
\* the backend has applied it, the handler alerts, calls loadOrders and (edit
\* view) onBack; on failure it only alerts
OrderCallSettled(call, outcome) ==
    /\ call \in orderCalls
    /\ call.kind \in {"cancel", "update"}
    /\ orderCalls' = orderCalls \ {call}
    /\ IF outcome = "ok"
       THEN /\ serverOrders' = [serverOrders EXCEPT ![call.id] =
                                 IF call.kind = "cancel" THEN "CANCELLED" ELSE call.status]
            /\ AfterOrderChanged(call)
       ELSE UNCHANGED <<serverOrders, hist, histPage, editingOrderId, editForm>>
    /\ ReceiveResponse(outcome)
    /\ UNCHANGED <<products, cartItems, activeTab, appError, toast, cartView, orderVars,
                   dashVars, orders, authView, loads, manageView, rolledBack,
                   changeLoads>>

----------------------------------------------------------------------------
(* Authentication: Login, VerifyOTP, logout and the App-level catalog load *)

\* how a call of /user/login can end: a body with success, a body without,
\* a 401, another non-2xx response, no response at all
LoginOutcomes == {"success", "refused", "unauthorized", "http error", "network error"}
\* the same for /user/verify-otp, whose body may carry a token
VerifyOutcomes ==
    {"token", "no token", "refused", "unauthorized", "http error", "network error"}
\* and for the catalog request of App.loadProducts
LoadOutcomes == {"ok", "unauthorized", "http error", "network error"}

\* what the code inputs can hold: nothing, five digits, six digits
OtpTexts ==
    {NoOtp, [i \in 1..6 |-> IF i = 6 THEN "" ELSE "1"], [i \in 1..6 |-> "1"]}

\* the Login (App's, or a ProtectedRoute fallback) or the VerifyOTP is shown
LoginShown == AuthComponent(isAuthenticated, showOTPVerification, fallbackShown)
                \in {"Login", "fallback Login"}
OtpShown == Screen = "otp"

\* the request of the mounted component: its isLoading / isResending is true
Live(kind) == [kind |-> kind, live |-> TRUE]

authOutside == <<products, cartItems, activeTab, appError, toast, cartView, orderVars,
                 listVars, manageView, backend, loads>>

\* the setters of Login and VerifyOTP reach the component only while the
\* instance that sent the request is mounted
SetError(call, message) == authError' = IF call.live THEN message ELSE authError

\* Login.handleSubmit up to its await; the button is disabled while isLoading
LoginSubmit ==
    /\ LoginShown
    /\ Live("login") \notin authCalls
    /\ authError' = ""
    /\ authCalls' = authCalls \cup {Live("login")}
    /\ UNCHANGED <<authOutside, tokenVars, isAuthenticated, showOTPVerification,
                   fallbackShown, otp>>

\* a body with a token taken for one that need not carry it
VerifyAccepted_AnySuccess(outcome) == outcome \in {"token", "no token"}

\* if (response.success && response.token)
VerifyAccepted(outcome) == outcome = "token"

\* response.token
TokenOf(outcome) == IF outcome = "token" THEN "t" ELSE ""

\* if (response.success) in Login.handleSubmit
LoginAccepted(outcome) == outcome = "success"

\* Login.handleSubmit resumed after await ApiService.login: onOTPRequired,
\* which is App.handleOTPRequired, or an error message
LoginSettled(call, outcome) ==
    /\ call \in authCalls
    /\ call.kind = "login"
    /\ ReceiveResponse(outcome)
    /\ IF Throws(outcome)
       THEN /\ SetError(call, "Network error. Please check your connection and try again.")
            /\ authCalls' = authCalls \ {call}
            /\ UNCHANGED <<isAuthenticated, showOTPVerification, fallbackShown, otp,
                           activeTab, cartView, listVars, manageView>>
       ELSE IF LoginAccepted(outcome)
            THEN AppRender(isAuthenticated, TRUE, activeTab, token', authError,
                           authCalls \ {call})
            ELSE /\ SetError(call, "Login failed. Please try again.")
                 /\ authCalls' = authCalls \ {call}
                 /\ UNCHANGED <<isAuthenticated, showOTPVerification, fallbackShown, otp,
                                activeTab, cartView, listVars, manageView>>
    /\ UNCHANGED <<products, cartItems, appError, toast, orderVars, backend, loads>>

\* VerifyOTP.handleOtpChange, one input after the other
OtpChange(text) ==
    /\ OtpShown
    /\ text # otp
    /\ otp' = text
    /\ UNCHANGED <<authOutside, tokenVars, isAuthenticated, showOTPVerification,
                   fallbackShown, authError, authCalls>>

\* otp.join('').length
OtpLength(text) == Cardinality({i \in DOMAIN text : text[i] # ""})

\* VerifyOTP.handleSubmit up to its await, or to its return on a short code
VerifySubmit ==
    /\ OtpShown
    /\ Live("verify") \notin authCalls
    /\ IF OtpLength(otp) # 6
       THEN /\ authError' = "Please enter the complete 6-digit code"
            /\ UNCHANGED authCalls
       ELSE /\ authError' = ""
            /\ authCalls' = authCalls \cup {Live("verify")}
    /\ UNCHANGED <<authOutside, tokenVars, isAuthenticated, showOTPVerification,
                   fallbackShown, otp>>

\* VerifyOTP.handleSubmit resumed after await ApiService.verifyOTP: setToken
\* and onVerified, which is App.handleOTPVerified and ends with
\* loadProducts(), or an error message
VerifySettled(call, outcome) ==
    /\ call \in authCalls
    /\ call.kind = "verify"
    /\ IF Throws(outcome)
       THEN /\ ReceiveResponse(outcome)
            /\ SetError(call, "Failed to verify code. Please try again.")
            /\ authCalls' = authCalls \ {call}
            /\ UNCHANGED <<isAuthenticated, showOTPVerification, fallbackShown, otp,
                           activeTab, cartView, listVars, manageView, loads>>
       ELSE IF VerifyAccepted(outcome)
            THEN /\ SetToken(TokenOf(outcome))
                 /\ AppRender(TRUE, FALSE, activeTab, TokenOf(outcome), authError,
                              authCalls \ {call})
                 /\ loads' = loads + 1 + EffectLoads(TRUE, activeTab, appError, products)
                 /\ loads' <= MaxInFlight
            ELSE /\ ReceiveResponse(outcome)
                 /\ SetError(call, "Invalid code. Please try again.")
                 /\ authCalls' = authCalls \ {call}
                 /\ UNCHANGED <<isAuthenticated, showOTPVerification, fallbackShown, otp,
                                activeTab, cartView, listVars, manageView, loads>>
    /\ UNCHANGED <<products, cartItems, appError, toast, orderVars, backend>>

\* VerifyOTP.handleResendOTP up to its await; disabled while isResending
ResendClick ==
    /\ OtpShown
    /\ Live("resend") \notin authCalls
    /\ authError' = ""
    /\ authCalls' = authCalls \cup {Live("resend")}
    /\ UNCHANGED <<authOutside, tokenVars, isAuthenticated, showOTPVerification,
                   fallbackShown, otp>>

\* VerifyOTP.handleResendOTP resumed after await ApiService.login(email, ''):
\* whatever body came back, alert('Code resent successfully!'); an error
\* message only if the call threw
ResendSettled(call, outcome) ==
    /\ call \in authCalls
    /\ call.kind = "resend"
    /\ ReceiveResponse(outcome)
    /\ IF Throws(outcome)
       THEN SetError(call, "Failed to resend code. Please try again.")
       ELSE UNCHANGED authError
    /\ authCalls' = authCalls \ {call}
    /\ UNCHANGED <<authOutside, isAuthenticated, showOTPVerification, fallbackShown, otp>>

\* VerifyOTP's Back to login: App.handleBackToLogin
BackToLogin ==
    /\ OtpShown
    /\ AppRender(isAuthenticated, FALSE, activeTab, token, authError, authCalls)
    /\ UNCHANGED <<products, cartItems, appError, toast, orderVars, backend, loads,
                   tokenVars>>

\* Navigation's Logout: App.handleLogout
Logout ==
    /\ Screen = "app"
    /\ NoOverlay
    /\ ClearToken
    /\ cartItems' = <<>>
    /\ AppRender(FALSE, FALSE, "products", token', authError, authCalls)
    /\ UNCHANGED <<products, appError, toast, orderVars, backend, loads>>

\* App.loadProducts resumed after await ApiService.getAllProducts, when
\* called by the mount effect, by handleOTPVerified or by Retry:
\* setProducts(list), or setError in the catch block
LoadSettled(outcome, list) ==
    /\ loads > 0
    /\ ReceiveResponse(outcome)
    /\ IF Throws(outcome)
       THEN appError' = "Failed to load products" /\ UNCHANGED products
       ELSE products' = list /\ UNCHANGED appError
    /\ Rerender(token')
    /\ loads' = loads - 1 + EffectLoads(isAuthenticated, activeTab, appError', products')
    /\ UNCHANGED <<cartItems, toast, orderVars, backend>>

\* Retry on App's ErrorBanner: setError(null); loadProducts()
AppRetry ==
    /\ Screen = "app"
    /\ NoOverlay
    /\ appError # ""
    /\ appError' = ""
    /\ Rerender(token)
    /\ loads' = loads + 1 + EffectLoads(isAuthenticated, activeTab, "", products)
    /\ loads' <= MaxInFlight
    /\ UNCHANGED <<products, cartItems, toast, orderVars, backend, tokenVars>>

-----------------------------------------------------------------------------
(* Actions: manage-products (ManageProducts, EditProduct, BulkUpload,
   UploadHistory) *)

\* what a request of the manage-products view can be answered with: a body
\* with success true, a body with success false, a 401, a thrown error
ManageOutcomes == {"ok", "failed", "unauthorized", "network error"}

ManageShown(view) == TabShown("manage-products") /\ manage.view = view

\* what the handler of a request can still reach: "view", the component that
\* sent it; "manage", only the ManageProducts above it; "gone", neither
Detached(calls) ==
    {[c EXCEPT !.live = IF @ = "view" THEN "manage" ELSE @] : c \in calls}

\* Number.prototype.toString of a non-negative whole number
RECURSIVE NumberText(_)
NumberText(n) ==
    IF n < 10
    THEN <<Digits[n + 1]>>
    ELSE NumberText(n \div 10) \o <<Digits[(n % 10) + 1]>>

\* useState of EditProduct with the effect on [product] applied:
\* setFormData of the product's fields, setSizes(product.sizes)
FormOf(editing) ==
    IF editing = ""
    THEN InitialProductForm
    ELSE [name |-> <<"a">>, category |-> <<"c">>,
          wholesalePrice |-> NumberText(products[editing].wholesalePrice),
          retailPrice |-> NumberText(products[editing].retailPrice),
          size |-> <<products[editing].sizes[1].size>>, isLoading |-> FALSE]

\* ManageProducts.setCurrentView and setEditingProduct: the component of the
\* view left unmounts, the one of the view entered mounts with its initial
\* state (UploadHistory's mount effect calls loadBatches)
SetCurrentView(view, editing) ==
    IF view = manage.view /\ editing = manage.editing
    THEN UNCHANGED manageView
    ELSE /\ manage' = [view |-> view, editing |-> editing]
         /\ productForm' = FormOf(editing)
         /\ bulk' = InitialBulk
         /\ batchView' = [InitialBatchView EXCEPT
                             !.loading = IF view = "upload-history" THEN 1 ELSE 0]
         /\ productCalls' = Detached(productCalls)
         /\ uploadCalls' = Detached(uploadCalls)
         /\ rollbacks' = Left(rollbacks)

\* ManageProducts.handleBackToList
HandleBackToList == SetCurrentView("list", "")

\* a call of App.loadProducts through the onProductsChange prop
ChangeLoadStarted(cl) ==
    [older |-> cl.older + (IF cl.newest = "pending" THEN 1 ELSE 0),
     newest |-> "pending", response |-> NoProducts]

OnProductsChange ==
    /\ changeLoads' = ChangeLoadStarted(changeLoads)
    /\ changeLoads'.older < MaxInFlight

\* the header buttons of the list view: Upload History, Bulk Upload, Add
ManageOpen(view) ==
    /\ ManageShown("list")
    /\ SetCurrentView(view, "")
    /\ UNCHANGED <<products, cartItems, activeTab, appError, toast, cartView, orderVars,
                   listVars, authView, backend, loads, tokenVars>>

\* ManageProducts.handleEdit
HandleEdit(id) ==
    /\ ManageShown("list")
    /\ id \in DOMAIN products
    /\ SetCurrentView("edit", id)
    /\ UNCHANGED <<products, cartItems, activeTab, appError, toast, cartView, orderVars,
                   listVars, authView, backend, loads, tokenVars>>

\* the Back to Products button, and onCancel of EditProduct
ManageBack ==
    /\ TabShown("manage-products")
    /\ manage.view # "list"
    /\ HandleBackToList
    /\ UNCHANGED <<products, cartItems, activeTab, appError, toast, cartView, orderVars,
                   listVars, authView, backend, loads, tokenVars>>

\* ---- EditProduct ----

FormFields == {"name", "category", "wholesalePrice", "retailPrice", "size"}
\* what the inputs can hold: nothing, blanks, a name; the number inputs hold
\* nothing or a non-negative number (min="0")
FormTexts(field) ==
    IF field \in {"wholesalePrice", "retailPrice"}
    THEN {<<>>, <<"0">>, <<"1">>, <<"2">>}
    ELSE IF field = "name" THEN {<<>>, <<" ">>, <<"a">>}
    ELSE IF field = "category" THEN {<<>>, <<"c">>}
    ELSE {<<>>, <<"S">>}

ProductFormShown == ManageShown("add") \/ ManageShown("edit")

\* EditProduct.handleInputChange, handleCategoryChange, handleSizeChange
HandleInputChange(field, text) ==
    /\ ProductFormShown
    /\ productForm' = [productForm EXCEPT ![field] = text]
    /\ UNCHANGED <<manage, bulk, batchView, productCalls, uploadCalls, rollbacks>>
    /\ UNCHANGED <<products, cartItems, activeTab, appError, toast, cartView, orderVars,
                   listVars, authView, backend, loads, tokenVars>>

\* the browser's constraint validation of the form: every input marked
\* required holds something
FormValid(entered) ==
    /\ entered.name # <<>>
    /\ entered.category # <<>>
    /\ entered.wholesalePrice # <<>>
    /\ entered.retailPrice # <<>>

\* sizes.filter(size => size.size.trim() && size.quantity >= 0)
ValidSizes(entered) == IF Trim(entered.size) # <<>> THEN <<entered.size>> ELSE <<>>

\* the alert of handleSubmit's validation, "" when it passes
SubmitBlocked(entered) ==
    IF \/ entered.name = <<>>
       \/ entered.category = <<>>
       \/ entered.wholesalePrice = <<>>
       \/ entered.retailPrice = <<>>
    THEN "Please fill in all required fields"
    ELSE IF ParseFloat(entered.wholesalePrice) <= 0 \/ ParseFloat(entered.retailPrice) <= 0
    THEN "Please enter valid positive prices"
    ELSE IF ParseFloat(entered.retailPrice) <= ParseFloat(entered.wholesalePrice)
    THEN "Retail price must be higher than wholesale price"
    ELSE IF ValidSizes(entered) = <<>>
    THEN "Please add at least one size with valid data"
    ELSE ""

\* productData of handleSubmit
ProductData(entered) ==
    [name |-> Trim(entered.name), category |-> Trim(entered.category),
     wholesalePrice |-> ParseFloat(entered.wholesalePrice),
     retailPrice |-> ParseFloat(entered.retailPrice),
     sizes |-> ValidSizes(entered)]

\* EditProduct.handleSubmit up to the await: a blocked submission alerts and
\* sets isLoading back to false, the other one sends updateProduct when a
\* product is edited and addProduct otherwise
HandleSubmit ==
    /\ ProductFormShown
    /\ ~productForm.isLoading
    /\ FormValid(productForm)
    /\ IF SubmitBlocked(productForm) # ""
       THEN UNCHANGED <<productForm, productCalls>>
       ELSE /\ LET call == [id |-> manage.editing, body |-> ProductData(productForm),
                            live |-> "view"]
               IN  /\ call \notin productCalls
                   /\ Cardinality(productCalls) < MaxProductCalls
                   /\ productCalls' = productCalls \cup {call}
            /\ productForm' = [productForm EXCEPT !.isLoading = TRUE]
    /\ UNCHANGED <<manage, bulk, batchView, uploadCalls, rollbacks>>
    /\ UNCHANGED <<products, cartItems, activeTab, appError, toast, cartView, orderVars,
                   listVars, authView, backend, loads, tokenVars>>

\* EditProduct.handleSubmit resumed after the await: on response.success
\* onProductUpdated(), which is ManageProducts.handleProductUpdated:
\* onProductsChange(); handleBackToList()
ProductSettled(call, outcome) ==
    /\ call \in productCalls
    /\ ReceiveResponse(outcome)
    /\ IF outcome = "ok"
       THEN /\ OnProductsChange
            /\ IF call.live = "gone" \/ manage.view = "list"
               THEN /\ productCalls' = productCalls \ {call}
                    /\ UNCHANGED <<manage, productForm, bulk, batchView, uploadCalls,
                                   rollbacks>>
               ELSE /\ manage' = InitialManage
                    /\ productForm' = InitialProductForm
                    /\ bulk' = InitialBulk
                    /\ batchView' = InitialBatchView
                    /\ productCalls' = Detached(productCalls \ {call})
                    /\ uploadCalls' = Detached(uploadCalls)
                    /\ rollbacks' = Left(rollbacks)
       ELSE /\ productCalls' = productCalls \ {call}
            /\ productForm' = IF call.live = "view"
                              THEN [productForm EXCEPT !.isLoading = FALSE]
                              ELSE productForm
            /\ UNCHANGED <<manage, bulk, batchView, uploadCalls, rollbacks, changeLoads>>
    /\ UNCHANGED <<products, cartItems, activeTab, appError, toast, cartView, orderVars,
                   listVars, authView, serverOrders, orderCalls, rolledBack, loads>>

\* ---- BulkUpload ----

\* the files the operator can pick, with File.type
Files == {"stock.xlsx", "stock.xls", "stock.csv"}
TypeOf(file) ==
    IF file = "stock.xlsx"
    THEN "application/vnd.openxmlformats-officedocument.spreadsheetml.sheet"
    ELSE IF file = "stock.xls" THEN "application/vnd.ms-excel"
    ELSE "text/csv"

\* every type taken for a spreadsheet
ValidTypes_Any == {TypeOf(file) : file \in Files}

\* validTypes of handleFileSelect
ValidTypes ==
    {"application/vnd.openxmlformats-officedocument.spreadsheetml.sheet",
     "application/vnd.ms-excel"}

\* BulkUpload.handleFileSelect; the file input is rendered while there is
\* no uploadResult
HandleFileSelect(file) ==
    /\ ManageShown("bulk-upload")
    /\ bulk.uploadResult = <<>>
    /\ IF TypeOf(file) \notin ValidTypes
       THEN bulk' = [bulk EXCEPT !.error = "Please select a valid Excel file (.xlsx or .xls)"]
       ELSE bulk' = [bulk EXCEPT !.selectedFile = <<file>>, !.error = "",
                                 !.uploadResult = <<>>]
    /\ UNCHANGED <<manage, productForm, batchView, productCalls, uploadCalls, rollbacks>>
    /\ UNCHANGED <<products, cartItems, activeTab, appError, toast, cartView, orderVars,
                   listVars, authView, backend, loads, tokenVars>>

\* BulkUpload.handleUpload up to the await; the button is disabled while
\* !selectedFile || isUploading
HandleUpload ==
    /\ ManageShown("bulk-upload")
    /\ bulk.uploadResult = <<>>
    /\ bulk.selectedFile # <<>>
    /\ ~bulk.isUploading
    /\ LET call == [file |-> bulk.selectedFile[1], live |-> "view"]
       IN  /\ call \notin uploadCalls
           /\ Cardinality(uploadCalls) < MaxInFlight
           /\ uploadCalls' = uploadCalls \cup {call}
    /\ bulk' = [bulk EXCEPT !.isUploading = TRUE, !.error = ""]
    /\ UNCHANGED <<manage, productForm, batchView, productCalls, rollbacks>>
    /\ UNCHANGED <<products, cartItems, activeTab, appError, toast, cartView, orderVars,
                   listVars, authView, backend, loads, tokenVars>>

\* BulkUpload.handleUpload resumed after the await: on response.success
\* setUploadResult(response); onUploadComplete(), which in ManageProducts is
\* onProductsChange(); handleBackToList(), so that the BulkUpload holding the
\* uploadResult is unmounted in the same update
UploadSettled(call, outcome) ==
    /\ call \in uploadCalls
    /\ ReceiveResponse(outcome)
    /\ IF outcome = "ok"
       THEN /\ OnProductsChange
            /\ IF call.live = "gone" \/ manage.view = "list"
               THEN /\ uploadCalls' = uploadCalls \ {call}
                    /\ UNCHANGED <<manage, productForm, bulk, batchView, productCalls,
                                   rollbacks>>
               ELSE /\ manage' = InitialManage
                    /\ productForm' = InitialProductForm
                    /\ bulk' = InitialBulk
                    /\ batchView' = InitialBatchView
                    /\ productCalls' = Detached(productCalls)
                    /\ uploadCalls' = Detached(uploadCalls \ {call})
                    /\ rollbacks' = Left(rollbacks)
       ELSE /\ uploadCalls' = uploadCalls \ {call}
            /\ bulk' = IF call.live = "view"
                       THEN [bulk EXCEPT
                                !.error = IF outcome = "failed"
                                          THEN "Upload failed"
                                          ELSE "Failed to upload file. Please try again.",
                                !.isUploading = FALSE]
                       ELSE bulk
            /\ UNCHANGED <<manage, productForm, batchView, productCalls, rollbacks,
                           changeLoads>>
    /\ UNCHANGED <<products, cartItems, activeTab, appError, toast, cartView, orderVars,
                   listVars, authView, serverOrders, orderCalls, rolledBack, loads>>

\* ---- UploadHistory ----

\* UploadHistory.loadBatches resumed after the await: the backend lists the
\* batches it has not rolled back
BatchesSettled(outcome) ==
    /\ ManageShown("upload-history")
    /\ batchView.loading > 0
    /\ ReceiveResponse(outcome)
    /\ batchView' = [batchView EXCEPT
                        !.loading = @ - 1,
                        !.batches = IF outcome = "ok" THEN BatchIds \ rolledBack ELSE @]
    /\ UNCHANGED <<manage, productForm, bulk, productCalls, uploadCalls, rollbacks>>
    /\ UNCHANGED <<products, cartItems, activeTab, appError, toast, cartView, orderVars,
                   listVars, authView, backend, loads>>

\* the Rollback button of a batch: disabled={rollbackingId === batch.uploadId}
RollbackEnabled(batch) ==
    /\ ManageShown("upload-history")
    /\ batch \in batchView.batches
    /\ batchView.rollbackingId # batch

\* UploadHistory.handleRollback up to the await, the confirm accepted
HandleRollback(batch) ==
    /\ RollbackEnabled(batch)
    /\ rollbacks[batch].live + rollbacks[batch].gone < MaxInFlight
    /\ batchView' = [batchView EXCEPT !.rollbackingId = batch]
    /\ rollbacks' = [rollbacks EXCEPT ![batch].live = @ + 1]
    /\ UNCHANGED <<manage, productForm, bulk, productCalls, uploadCalls>>
    /\ UNCHANGED <<products, cartItems, activeTab, appError, toast, cartView, orderVars,
                   listVars, authView, backend, loads, tokenVars>>

\* UploadHistory.handleRollback resumed after the await: on success
\* loadBatches() and onRollbackComplete(), which is onProductsChange;
\* finally setRollbackingId(null). The backend refuses the rollback of a
\* batch it has rolled back
RollbackSettled(batch, live, outcome) ==
    /\ rollbacks[batch][live] > 0
    /\ outcome = "ok" => batch \notin rolledBack
    /\ ReceiveResponse(outcome)
    /\ rollbacks' = [rollbacks EXCEPT ![batch][live] = @ - 1]
    /\ IF outcome = "ok"
       THEN /\ rolledBack' = rolledBack \cup {batch}
            /\ OnProductsChange
       ELSE UNCHANGED <<rolledBack, changeLoads>>
    /\ batchView' = IF live = "live"
                    THEN [batchView EXCEPT
                             !.rollbackingId = "",
                             !.loading = IF outcome = "ok" THEN @ + 1 ELSE @]
                    ELSE batchView
    /\ batchView'.loading <= MaxInFlight
    /\ UNCHANGED <<manage, productForm, bulk, productCalls, uploadCalls>>
    /\ UNCHANGED <<products, cartItems, activeTab, appError, toast, cartView, orderVars,
                   listVars, authView, serverOrders, orderCalls, loads>>

\* ---- the loads started through onProductsChange ----

\* App.loadProducts resumed after the await, for the load started last
\* ("newest") or for one started before it and not yet answered ("older")
ChangeLoadSettled(which, outcome, list) ==
    /\ IF which = "newest"
       THEN /\ changeLoads.newest = "pending"
            /\ changeLoads' = [changeLoads EXCEPT
                                  !.newest = IF Throws(outcome) THEN "failed" ELSE "applied",
                                  !.response = IF Throws(outcome) THEN NoProducts ELSE list]
       ELSE /\ changeLoads.older > 0
            /\ changeLoads' = [changeLoads EXCEPT !.older = @ - 1]
    /\ ReceiveResponse(outcome)
    /\ IF Throws(outcome)
       THEN appError' = "Failed to load products" /\ UNCHANGED products
       ELSE products' = list /\ UNCHANGED appError
    /\ Rerender(token')
    /\ UNCHANGED <<cartItems, toast, orderVars, serverOrders, orderCalls, rolledBack,
                   loads>>

----------------------------------------------------------------------------
(* Initial state: the App after mount, authenticated, catalog loaded *)

\* the views before any operator action
InitViews ==
    /\ cartItems = <<>>
    /\ activeTab = "products"
    /\ appError = ""
    /\ toast = ""
    /\ form = InitialForm
    /\ showUPIModal = FALSE
    /\ confirmRemoveId = ""
    /\ lastOrderRequest = <<>>
    /\ inflight = [create |-> 0, reload |-> 0]
    /\ dash = InitialList(FALSE)
    /\ hist = InitialList(TRUE)
    /\ searchTerm = <<>>
    /\ listState = InitialListState
    /\ debouncedQ = <<>>
    /\ catalogRequests = <<>>
    /\ histPage = 1
    /\ orders = NoOrders
    /\ editingOrderId = ""
    /\ editForm = <<>>
    /\ orderCalls = {}
    /\ serverOrders = [id \in OrderIds |-> "PENDING"]
    /\ manage = InitialManage
    /\ productForm = InitialProductForm
    /\ bulk = InitialBulk
    /\ batchView = InitialBatchView
    /\ productCalls = {}
    /\ uploadCalls = {}
    /\ rollbacks = [b \in BatchIds |-> [live |-> 0, gone |-> 0]]
    /\ rolledBack = {}
    /\ changeLoads = [older |-> 0, newest |-> "none", response |-> NoProducts]

\* a session after a successful verification, the catalog load answered
SignedIn ==
    /\ isAuthenticated = TRUE
    /\ showOTPVerification = FALSE
    /\ token = "t"
    /\ storedToken = "t"
    /\ fallbackShown = FALSE
    /\ authError = ""
    /\ otp = NoOtp
    /\ authCalls = {}
    /\ loads = 0

Init ==
    /\ products \in Catalogs
    /\ InitViews
    /\ SignedIn

\* the cart view: building and editing the cart against one loaded catalog
NextCart ==
    \/ \E tab \in {"products", "cart"} : Navigate(tab)
    \/ \E id \in ProductIds : \E i \in 1..Len(SizesOf(id)) : AddToCart(id, SizesOf(id)[i])
    \/ \E i \in 1..Len(cartItems) : Increment(i)
    \/ \E i \in 1..Len(cartItems) : Decrement(i)
    \/ \E i \in 1..Len(cartItems) : AskRemove(i)
    \/ ConfirmRemove
    \/ CancelRemove

SpecCart == Init /\ [][NextCart]_vars

\* the products dashboard: add-to-cart calls with catalog reloads in between
NextAdd ==
    \/ \E list \in Catalogs : LoadProducts(list)
    \/ \E id \in ProductIds : \E i \in 1..Len(SizesOf(id)) : AddToCart(id, SizesOf(id)[i])

SpecAdd == Init /\ [][NextAdd]_vars

----------------------------------------------------------------------------
(* Claims about the cart *)

LineIndexes(id, size) == {i \in 1..Len(cartItems) : SameLine(cartItems[i], id, size)}

WithinCeiling(item) == 1 <= item.cartQuantity /\ item.cartQuantity <= item.quantity

\* seq without its element at index i
DropIndex(seq, i) == [j \in 1..(Len(seq) - 1) |-> IF j < i THEN seq[j] ELSE seq[j + 1]]

\* C1: add-to-cart(product, size) leaves the cart unchanged when the size has
\* zero stock, appends a line of quantity 1 remembering that stock when the
\* cart has no line for the product and size, and otherwise adds exactly one
\* to that line unless the line already is at its remembered ceiling (then the
\* cart is unchanged); so no add-to-cart step, whatever catalog reloads came
\* before it, leaves a line above its remembered ceiling.
C1_AddToCartKeepsRememberedCeiling ==
    [][\A id \in ProductIds : \A s \in 1..Len(SizesOf(id)) :
          LET size == SizesOf(id)[s]
              stock == SizeStock(products[id], size)
              hits == LineIndexes(id, size)
          IN  AddToCart(id, size) =>
                /\ stock = 0 => cartItems' = cartItems
                /\ stock > 0 /\ hits = {} =>
                      cartItems' = Append(cartItems,
                                          [_id |-> id,
                                           retailPrice |-> products[id].retailPrice,
                                           wholesalePrice |-> products[id].wholesalePrice,
                                           selectedSize |-> size,
                                           cartQuantity |-> 1,
                                           quantity |-> stock])
                /\ stock > 0 =>
                      \A i \in hits :
                          IF cartItems[i].cartQuantity = cartItems[i].quantity
                          THEN cartItems' = cartItems
                          ELSE cartItems' =
                                  [cartItems EXCEPT ![i].cartQuantity = @ + 1]
                /\ \A i \in 1..Len(cartItems') :
                      cartItems'[i].cartQuantity <= cartItems'[i].quantity
      ]_vars

\* C2: in every cart state reached through add-to-cart, the guarded increment
\* and decrement buttons and confirmed line removal, every cart line has a
\* quantity within [1, remembered availability of that line].
C2_EveryLineWithinItsCeiling ==
    \A i \in 1..Len(cartItems) : WithinCeiling(cartItems[i])

\* C3: update-quantity and remove-line applied to one cart line change only
\* that line: every other line, also one of the same product in another size,
\* keeps its quantity and stays in the cart.
C3_UpdateAndRemoveTouchOneLine ==
    [][/\ \A i \in 1..Len(cartItems) :
             (Increment(i) \/ Decrement(i)) =>
                 /\ Len(cartItems') = Len(cartItems)
                 /\ \A j \in 1..Len(cartItems) : j # i => cartItems'[j] = cartItems[j]
       /\ ConfirmRemove =>
             \E i \in 1..Len(cartItems) :
                 /\ cartItems[i]._id = confirmRemoveId
                 /\ cartItems' = DropIndex(cartItems, i)
      ]_vars

----------------------------------------------------------------------------
(* The cart summary *)

\* the decimal text of a natural number
RECURSIVE ToText(_)
ToText(n) == IF n < 10 THEN <<Digits[n + 1]>>
             ELSE Append(ToText(n \div 10), Digits[(n % 10) + 1])

\* the discounts typed in the runs of the summary
DiscountAmounts == {0, 2, 200, 650, 1500}

DiscountTexts ==
    {ToText(d) : d \in DiscountAmounts} \cup {<<>>, <<"0", "2">>, <<"-", "5">>}

NextTotals ==
    \/ \E tab \in {"products", "cart"} : Navigate(tab)
    \/ \E id \in ProductIds : \E i \in 1..Len(SizesOf(id)) : AddToCart(id, SizesOf(id)[i])
    \/ \E i \in 1..Len(cartItems) : Increment(i)
    \/ \E i \in 1..Len(cartItems) : Decrement(i)
    \/ \E text \in DiscountTexts : SetDiscount(text)

SpecTotals == Init /\ [][NextTotals]_vars

RECURSIVE SumOverLines(_, _)
SumOverLines(indexes, margin) ==
    IF indexes = {} THEN 0
    ELSE LET i == CHOOSE x \in indexes : TRUE
             unit == IF margin
                     THEN cartItems[i].retailPrice - cartItems[i].wholesalePrice
                     ELSE cartItems[i].retailPrice
         IN  unit * cartItems[i].cartQuantity + SumOverLines(indexes \ {i}, margin)

ExampleCart ==
    /\ Len(cartItems) = 1
    /\ cartItems[1].retailPrice = 500
    /\ cartItems[1].wholesalePrice = 300
    /\ cartItems[1].cartQuantity = 2
    /\ form.discount = <<"2", "0", "0">>

\* C4: for every cart and every non-negative discount, subtotal is the sum
\* over the lines of retail price x quantity, the displayed total is
\* max(0, subtotal - discount) and the displayed profit is
\* max(0, sum of (retail - wholesale) x quantity - discount); one line (retail
\* 500, wholesale 300, quantity 2) with discount 200 shows subtotal 1000,
\* total 800 and profit 200.
C4_CartTotals ==
    LET sum == SumOverLines(DOMAIN cartItems, FALSE)
        margins == SumOverLines(DOMAIN cartItems, TRUE)
    IN  /\ subtotal = sum
        /\ \A d \in DiscountAmounts :
              (form.discount = ToText(d) \/ (d = 0 /\ form.discount = <<>>)) =>
                  /\ totalAmount = Max(0, sum - d)
                  /\ displayedProfit = Max(0, margins - d)
        /\ ExampleCart => subtotal = 1000 /\ totalAmount = 800 /\ displayedProfit = 200

\* the worked example is on screen, and so is a discount above the margin
C4_Witness == ExampleCart /\ totalAmount = 800

----------------------------------------------------------------------------
(* Checkout *)

\* one product in stock in one size, and the catalog after it has been sold
StockedCatalog ==
    [id \in ProductIds |->
        MakeProduct(id, [i \in 1..Len(SizesOf(id)) |-> IF id = "p1" /\ i = 1 THEN 1 ELSE 0])]

SoldOutCatalog ==
    [id \in ProductIds |-> MakeProduct(id, [i \in 1..Len(SizesOf(id)) |-> 0])]

PhoneTexts == {<<>>, <<" ", "9", " ">>}
NoteTexts == {<<>>, <<" ">>}
CheckoutDiscountTexts == {<<>>, <<"2">>}

InitCheckout == Init /\ products = StockedCatalog

NextCheckout ==
    \/ \E tab \in Tabs : Navigate(tab)
    \/ \E id \in ProductIds : \E i \in 1..Len(SizesOf(id)) : AddToCart(id, SizesOf(id)[i])
    \/ \E i \in 1..Len(cartItems) : AskRemove(i)
    \/ ConfirmRemove
    \/ CancelRemove
    \/ \E text \in PhoneTexts : SetCustomerPhone(text)
    \/ \E text \in NoteTexts : SetNotes(text)
    \/ \E text \in CheckoutDiscountTexts : SetDiscount(text)
    \/ \E method \in PaymentMethods : SetPaymentMethod(method)
    \/ \E status \in PaymentStatuses : SetPaymentStatus(status)
    \/ ConfirmSaleClick
    \/ ConfirmSaleOnEmptyCart
    \/ CloseUPIModal
    \/ UPIPaymentReceived
    \/ \E outcome \in CreateOutcomes : OrderSettled(outcome)
    \/ \E response \in {<<>>, <<StockedCatalog>>, <<SoldOutCatalog>>} : ReloadSettled(response)

SpecCheckout == InitCheckout /\ [][NextCheckout]_vars

\* a step hands an order-creation request to fetch
IssuesOrderRequest == inflight'.create = inflight.create + 1

\* C5: confirm-sale with an empty cart changes no state other than showing a
\* warning and issues no order-creation or other request, whatever payment
\* method is selected.
C5_EmptyCartConfirmOnlyWarns ==
    [][ConfirmSaleOnEmptyCart =>
          /\ toast' = EmptyCartWarning
          /\ UNCHANGED <<products, cartItems, activeTab, appError, form, showUPIModal,
                         confirmRemoveId, lastOrderRequest, inflight, dash, hist>>
      ]_vars

\* the warning is up over an empty cart with UPI selected, nothing was sent
C5_Witness ==
    /\ toast = EmptyCartWarning
    /\ Len(cartItems) = 0
    /\ activeTab = "cart"
    /\ form.paymentMethod = "UPI"
    /\ inflight.create = 0

\* C6: with UPI selected, pressing confirm-sale issues no order-creation
\* request; a UPI request is issued only by "payment received" in the UPI
\* confirmation step, and closing or cancelling that step issues none; with
\* cash selected the request is issued at the confirm-sale press itself.
C6_UPIWaitsForPaymentReceived ==
    [][/\ (ConfirmSaleClick /\ form.paymentMethod = "UPI") =>
             /\ ~IssuesOrderRequest
             /\ UNCHANGED <<lastOrderRequest, inflight>>
             /\ showUPIModal'
       /\ CloseUPIModal => UNCHANGED <<lastOrderRequest, inflight>>
       /\ (IssuesOrderRequest /\ lastOrderRequest'[1].paymentMethod = "UPI") =>
             showUPIModal /\ UPIPaymentReceived
       /\ (ConfirmSaleClick /\ form.paymentMethod = "CASH") =>
             /\ IssuesOrderRequest
             /\ lastOrderRequest'[1].paymentMethod = "CASH"
      ]_vars

\* the UPI confirmation step is open and no request has gone out
C6_Witness ==
    /\ showUPIModal
    /\ form.paymentMethod = "UPI"
    /\ lastOrderRequest = <<>>
    /\ inflight.create = 0

\* C7: every order-creation request issued for a UPI sale carries payment
\* method UPI and payment status PAID, whatever status the form had selected.
C7_UPIRequestIsPaid ==
    [][(IssuesOrderRequest /\ (showUPIModal \/ lastOrderRequest'[1].paymentMethod = "UPI")) =>
          /\ lastOrderRequest'[1].paymentMethod = "UPI"
          /\ lastOrderRequest'[1].paymentStatus = "PAID"
      ]_vars

\* a UPI request is in flight
C7_Witness ==
    /\ lastOrderRequest # <<>>
    /\ lastOrderRequest[1].paymentMethod = "UPI"
    /\ lastOrderRequest[1].paymentStatus = "PAID"
    /\ inflight.create > 0

\* the request body carries what the form holds
RequestCarriesForm(request, f) ==
    /\ request.customerPhone = TextOrUndefined(f.customerPhone)
    /\ request.notes = TextOrUndefined(f.notes)
    /\ request.paymentStatus = f.paymentStatus
    /\ request.discount =
          (IF f.discount = <<>> \/ ParseFloat(f.discount) = 0
           THEN <<>> ELSE <<ParseFloat(f.discount)>>)

\* C8: a cash sale's order-creation request carries the phone, discount, notes
\* and payment status entered in the form, and the form is reset only as a
\* consequence of that request succeeding: neither the press nor a failed
\* creation clears what was entered.
C8_FormKeptUntilSuccess ==
    [][/\ (ConfirmSaleClick /\ form.paymentMethod = "CASH") =>
             /\ RequestCarriesForm(lastOrderRequest'[1], form)
             /\ form' = form
       /\ \A outcome \in CreateOutcomes \ {"order"} :
             OrderSettled(outcome) => form' = form
      ]_vars

\* the part of C8 the code does meet: the cash request carries the form
C8_CashRequestCarriesForm ==
    [][(ConfirmSaleClick /\ form.paymentMethod = "CASH") =>
             RequestCarriesForm(lastOrderRequest'[1], form)
      ]_vars

\* C9: an order-creation failure (a response without an order id, an error
\* response or a network failure) leaves the cart lines, the active view and
\* the catalog unchanged and starts no reload; the order flow reloads the
\* catalog only after a successful creation, and empties the cart and switches
\* to the history view only when that reload has returned; the local stock
\* figures change only by taking over a list the backend returned.
C9_OnlySuccessReloadsAndClears ==
    [][/\ \A outcome \in CreateOutcomes \ {"order"} :
             OrderSettled(outcome) =>
                 UNCHANGED <<cartItems, activeTab, products>>
                 /\ inflight'.reload = inflight.reload
       /\ inflight'.reload > inflight.reload =>
             /\ OrderSettled("order")
             /\ UNCHANGED <<cartItems, activeTab, products>>
       /\ (\E response \in {<<>>, <<StockedCatalog>>, <<SoldOutCatalog>>} :
               ReloadSettled(response)) =>
             cartItems' = <<>> /\ activeTab' = "history"
       /\ (activeTab' = "history" /\ activeTab = "cart") =>
             \/ inflight'.reload = inflight.reload - 1
             \/ Navigate("history")
       /\ products' # products =>
             /\ inflight'.reload = inflight.reload - 1
             /\ ReloadSettled(<<products'>>)
       /\ \A i \in 1..Len(cartItems) :
             i \in 1..Len(cartItems') => cartItems'[i].quantity = cartItems[i].quantity
      ]_vars

\* an order creation has failed and the cart still holds its line
C9_Witness ==
    /\ toast \in {"Failed to create order", "Error creating order. Please try again."}
    /\ Len(cartItems) > 0
    /\ activeTab = "cart"
    /\ inflight.reload = 0

----------------------------------------------------------------------------
(* List requests *)

InitList == Init /\ products = FullCatalog

NextList ==
    \/ DashFetch
    \/ \E k \in 1..Len(dash.reqs) : \E outcome \in ServerOutcomes : DashSettle(k, outcome)
    \/ HistFetch
    \/ \E k \in 1..Len(hist.reqs) : \E outcome \in ServerOutcomes : HistSettle(k, outcome)

SpecList == InitList /\ [][NextList]_vars

Shown(view) == <<view.data, view.totalCount, view.error>>

\* C10: in the products dashboard and in the order history view, once a newer
\* list request has been started, the response or failure of an older request
\* never changes the displayed list, the total count or the error message:
\* only the outcome of the most recently started request is applied.
C10_StaleOutcomesNeverShown ==
    [][/\ \A k \in 1..Len(dash.reqs) : \A outcome \in ServerOutcomes :
             (DashSettle(k, outcome) /\ k < Len(dash.reqs)) => Shown(dash') = Shown(dash)
       /\ \A k \in 1..Len(hist.reqs) : \A outcome \in ServerOutcomes :
             (HistSettle(k, outcome) /\ k < Len(hist.reqs)) => Shown(hist') = Shown(hist)
       /\ Shown(dash') # Shown(dash) /\ dash'.reqs # dash.reqs /\ Len(dash'.reqs) = Len(dash.reqs) =>
             dash'.reqs[Len(dash.reqs)] = "applied" /\ dash.reqs[Len(dash.reqs)] = "pending"
       /\ Shown(hist') # Shown(hist) /\ hist'.reqs # hist.reqs /\ Len(hist'.reqs) = Len(hist.reqs) =>
             hist'.reqs[Len(hist.reqs)] = "applied" /\ hist.reqs[Len(hist.reqs)] = "pending"
      ]_vars

\* in both views an older request has settled after a newer one was started
\* and was dropped, and the newer one's response is what is shown
C10_Witness ==
    /\ Len(dash.reqs) >= 2 /\ dash.reqs[1] = "discarded" /\ dash.reqs[2] = "applied"
    /\ dash.data = 2 /\ dash.error = 0
    /\ Len(hist.reqs) >= 2 /\ hist.reqs[1] = "discarded" /\ hist.reqs[2] = "applied"
    /\ hist.data = 2 /\ hist.error = 0

----------------------------------------------------------------------------
(* The products dashboard's search box *)

SearchTexts == {<<>>, <<"a">>, <<"a", "b">>}

NextSearch ==
    \/ DashMount
    \/ \E k \in 1..Len(dash.reqs) : \E outcome \in ServerOutcomes : DashSettle(k, outcome)
    \/ \E val \in SearchTexts : SearchChange(val)
    \/ DebounceFires
    \/ \E sort \in Sorts : SortChange(sort)
    \/ \E size \in PageSizes : PageSizeChange(size)
    \/ NextPage
    \/ PrevPage

SpecSearch == InitList /\ [][NextSearch]_vars

IssuesCatalogRequest == Len(catalogRequests') = Len(catalogRequests) + 1

LastRequest(requests) == requests[Len(requests)]

\* C11: whenever the products dashboard issues a catalog request while the
\* current search term is empty or shorter than the minimum length (2
\* characters), it requests the full page from the list endpoint; it uses
\* the search endpoint only while the current search term has at least 2
\* characters.
C11_EndpointFollowsSearchTerm ==
    [][IssuesCatalogRequest =>
         /\ Len(searchTerm') < MinSearchLength =>
               LastRequest(catalogRequests').endpoint = "list"
         /\ LastRequest(catalogRequests').endpoint = "search" =>
               Len(searchTerm') >= MinSearchLength
      ]_vars

----------------------------------------------------------------------------
(* Retry on a failed list load *)

NextRetry ==
    \/ NextSearch
    \/ DashRetry
    \/ \E tab \in {"products", "history"} : Navigate(tab)
    \/ HistMount
    \/ \E k \in 1..Len(hist.reqs) : \E outcome \in ServerOutcomes : HistSettle(k, outcome)
    \/ HistNextPage
    \/ HistPrevPage
    \/ HistFilterChange
    \/ HistRetry

SpecRetry == InitList /\ [][NextRetry]_vars

\* the dashboard shows its error banner / the order history shows its banner
DashBannerShown == DashMounted /\ ~dash.isLoading /\ dash.error # 0
HistBannerShown == HistMounted /\ hist.error # 0

\* C12: after a list load has failed in the products dashboard or in the
\* order history view and the error banner is shown, activating the banner's
\* Retry control issues a new request for the same list (same page, size,
\* sort and filters).
C12_RetryIssuesRequest ==
    /\ DashBannerShown /\ Len(dash.reqs) < MaxRequests =>
          ENABLED (/\ DashRetry
                   /\ IssuesCatalogRequest
                   /\ LastRequest(catalogRequests') = Fetcher(listState, debouncedQ))
    /\ HistBannerShown /\ Len(hist.reqs) < MaxRequests =>
          ENABLED (/\ HistRetry
                   /\ Len(hist'.reqs) = Len(hist.reqs) + 1
                   /\ histPage' = histPage)

----------------------------------------------------------------------------
(* Editing and cancelling orders *)

NextOrders ==
    \/ \E tab \in {"products", "history"} : Navigate(tab)
    \/ HistMount
    \/ \E k \in 1..Len(hist.reqs) : \E outcome \in ServerOutcomes : HistSettle(k, outcome)
    \/ \E id \in OrderIds : \E answer \in BOOLEAN : HandleCancelOrder(id, answer)
    \/ \E id \in OrderIds : EditClick(id)
    \/ \E id \in OrderIds : \E outcome \in ServerOutcomes : LoadOrderSettled(id, outcome)
    \/ \E status \in OrderStatuses : EditSetStatus(status)
    \/ HandleSave
    \/ \E answer \in BOOLEAN : HandleCancel(answer)
    \/ EditBack
    \/ \E call \in orderCalls : \E outcome \in ServerOutcomes : OrderCallSettled(call, outcome)

SpecOrders == InitList /\ [][NextOrders]_vars

\* C14: after the operator cancels an order (from the order history list or
\* from the edit view) and the cancel request succeeds, the order history
\* view no longer offers the edit or cancel action for that order: once the
\* handler of the successful cancel has run, the list either no longer offers
\* the actions or is being reloaded.
C14_CancelledOrderOffersNoActions ==
    [][\A call \in orderCalls :
          (OrderCallSettled(call, "ok") /\ call.kind = "cancel" /\ HistListShown') =>
             (~ActionsOffered(call.id))' \/ hist'.isLoading
      ]_vars

\* C15: the client puts an order into the cancelled status only by calling
\* the cancel endpoint after the operator confirmed the cancellation; the
\* edit view's update request never sets an order's payment status to
\* cancelled.
C15_CancelledOnlyByConfirmedCancel ==
    [][/\ \A call \in orderCalls' \ orderCalls :
             /\ call.kind = "update" => call.status # "CANCELLED"
             /\ call.kind = "cancel" =>
                   \/ HandleCancelOrder(call.id, TRUE)
                   \/ HandleCancel(TRUE) /\ call.id = editingOrderId
       /\ \A id \in OrderIds :
             serverOrders'[id] = "CANCELLED" /\ serverOrders[id] # "CANCELLED" =>
                \E call \in orderCalls : /\ call.kind = "cancel" /\ call.id = id
                                          /\ OrderCallSettled(call, "ok")
      ]_vars

----------------------------------------------------------------------------
(* Confirmation of destructive actions *)

\* C16: no cart line is removed from the cart view unless the operator
\* accepted a confirmation prompt for exactly that removal on exactly that
\* line, and declining the prompt leaves the cart and everything else as it
\* was and sends nothing: a step that removes cart lines is the accepted
\* prompt and removes one line, a line of the product the prompt was opened
\* for.
C16_RemovalNeedsPromptForThatLine ==
    [][/\ Len(cartItems') < Len(cartItems) =>
             /\ ConfirmRemove
             /\ \E i \in 1..Len(cartItems) :
                   /\ cartItems[i]._id = confirmRemoveId
                   /\ cartItems' = DropIndex(cartItems, i)
       /\ CancelRemove =>
             UNCHANGED <<products, cartItems, activeTab, appError, toast, form, showUPIModal,
                         orderVars, listVars, elsewhere>>
      ]_vars

\* C16, the cancel-order requests: a cancel request is sent only by the step
\* in which the operator accepted the prompt for that order, and a declined
\* prompt changes nothing.
C16_CancelNeedsAcceptedPrompt ==
    [][/\ \A call \in orderCalls' \ orderCalls :
             call.kind = "cancel" =>
                \/ call.from = "list" /\ HandleCancelOrder(call.id, TRUE)
                \/ call.from = "edit" /\ HandleCancel(TRUE) /\ call.id = editingOrderId
       /\ \A id \in OrderIds : HandleCancelOrder(id, FALSE) => UNCHANGED vars
       /\ HandleCancel(FALSE) => UNCHANGED vars
      ]_vars

----------------------------------------------------------------------------
(* Sessions: start-up, login, code verification, logout *)

\* App after its mount effect: a token found in localStorage makes the
\* session authenticated and starts the catalog load
InitSession ==
    /\ products = NoProducts
    /\ InitViews
    /\ storedToken \in {"", "t"}
    /\ token = storedToken
    /\ isAuthenticated = (storedToken # "")
    /\ showOTPVerification = FALSE
    /\ fallbackShown = FALSE
    /\ authError = ""
    /\ otp = NoOtp
    /\ authCalls = {}
    /\ loads = IF storedToken # "" THEN 1 ELSE 0

NextSession ==
    \/ LoginSubmit
    \/ \E call \in authCalls : \E outcome \in LoginOutcomes : LoginSettled(call, outcome)
    \/ \E text \in OtpTexts : OtpChange(text)
    \/ VerifySubmit
    \/ \E call \in authCalls : \E outcome \in VerifyOutcomes : VerifySettled(call, outcome)
    \/ ResendClick
    \/ \E call \in authCalls : \E outcome \in LoginOutcomes : ResendSettled(call, outcome)
    \/ BackToLogin
    \/ Logout
    \/ \E outcome \in LoadOutcomes : LoadSettled(outcome, FullCatalog)
    \/ AppRetry
    \/ \E tab \in AppTabs : Navigate(tab)
    \/ AddToCart("p1", SizesOf("p1")[1])

SpecSession == InitSession /\ [][NextSession]_vars

\* C17: the session is authenticated at start-up only if a token was found in
\* durable storage, becomes authenticated later only in the step in which a
\* code verification is answered with a token, that token then being held in
\* memory and in durable storage, and the authenticated views are on screen
\* only in an authenticated session; the step in which a login is answered
\* with success shows the code entry, leaves the token store as it was and
\* authenticates nothing
C17_AuthenticatedOnlyAfterVerification ==
    /\ (isAuthenticated => storedToken # "")
    /\ [][/\ (Screen = "app")' => isAuthenticated'
          /\ (isAuthenticated' /\ ~isAuthenticated) =>
                /\ \E call \in authCalls : VerifySettled(call, "token")
                /\ token' # ""
                /\ storedToken' = token'
          /\ \A call \in authCalls :
                LoginSettled(call, "success") =>
                    /\ (Screen = "otp")'
                    /\ UNCHANGED <<tokenVars, isAuthenticated>>]_vars

\* C17, witness: the tabs are shown with a token in memory and in storage
\* while a resend of the code, sent from the code entry that the
\* verification has closed, is still unanswered
C17_Witness ==
    /\ Screen = "app"
    /\ token = "t" /\ storedToken = "t"
    /\ [kind |-> "resend", live |-> FALSE] \in authCalls
    /\ loads > 0

----------------------------------------------------------------------------
(* Failures of login, verification and resend *)

\* the Login or VerifyOTP on screen
ShownComponent == AuthComponent(isAuthenticated, showOTPVerification, fallbackShown)

\* a step that writes no token and sends no request
StoresAndSendsNothing ==
    /\ token' \in {token, ""}
    /\ storedToken' \in {storedToken, ""}
    /\ authCalls' \subseteq authCalls
    /\ loads' <= loads
    /\ UNCHANGED <<inflight, orderCalls>>

\* the step leaves the screen that was shown, with an error message on it
StaysWithMessage ==
    /\ ShownComponent' = ShownComponent
    /\ authError' # ""
    /\ StoresAndSendsNothing

\* C18: when the login, the verification or the resend sent from the screen
\* that is shown is answered with anything but success (for the verification:
\* success with a token), and when the code is submitted incomplete, the same
\* screen stays with an error message, no token is stored and no request is
\* sent
C18_FailureKeepsStateWithMessage ==
    [][/\ \A outcome \in LoginOutcomes \ {"success"} :
             /\ LoginSettled(Live("login"), outcome) =>
                    ShownComponent \in {"Login", "fallback Login"} /\ StaysWithMessage
             /\ ResendSettled(Live("resend"), outcome) =>
                    ShownComponent = "VerifyOTP" /\ StaysWithMessage
       /\ \A outcome \in VerifyOutcomes \ {"token"} :
             VerifySettled(Live("verify"), outcome) =>
                    ShownComponent = "VerifyOTP" /\ StaysWithMessage
       /\ (VerifySubmit /\ OtpLength(otp) # 6) =>
                    ShownComponent = "VerifyOTP" /\ StaysWithMessage]_vars

----------------------------------------------------------------------------
(* Logout and the token store *)

\* C19: a logout, whatever the tab, the cart and the requests in flight,
\* leaves no token in memory nor in durable storage, an empty cart, the
\* products tab as the active one and the login screen of an anonymous
\* session
C19_LogoutClearsSession ==
    [][Logout =>
          /\ token' = "" /\ storedToken' = ""
          /\ cartItems' = <<>>
          /\ activeTab' = "products"
          /\ ~isAuthenticated'
          /\ (Screen = "login")'
          /\ ShownComponent' = "Login"]_vars

\* C19, witness: the login screen of a session that had loaded the catalog
\* and still waits for the answer to a catalog request: only a logout leads
\* from the tabs to an anonymous session
C19_Witness ==
    /\ Screen = "login"
    /\ products = FullCatalog
    /\ loads > 0
    /\ token = "" /\ storedToken = ""
    /\ cartItems = <<>> /\ activeTab = "products"

\* a call of the session is answered with HTTP 401
AnsweredUnauthorized ==
    \/ \E call \in authCalls :
          \/ LoginSettled(call, "unauthorized")
          \/ VerifySettled(call, "unauthorized")
          \/ ResendSettled(call, "unauthorized")
    \/ LoadSettled("unauthorized", FullCatalog)

\* C20: in the step in which a call is answered with 401 and its caller's
\* error handler runs, the token is gone from memory and from durable
\* storage: the handler of the catalog load sets the error banner, and the
\* render it causes finds no token for a guarded tab; a token is in memory
\* again only when a later verification is answered with one
C20_UnauthorizedClearsTokenFirst ==
    [][/\ AnsweredUnauthorized => token' = "" /\ storedToken' = ""
       /\ (LoadSettled("unauthorized", FullCatalog) /\ Screen = "app") =>
             /\ appError' # ""
             /\ fallbackShown' = (activeTab \in GuardedTabs)
       /\ (token = "" /\ token' # "") =>
             \E call \in authCalls : VerifySettled(call, "token")]_vars

\* C20, witness: the catalog load of an authenticated session was answered
\* with 401 while the order history was shown: no token is left, the error
\* banner is set and the guarded tab shows its fallback
C20_Witness ==
    /\ isAuthenticated
    /\ token = "" /\ storedToken = ""
    /\ appError # ""
    /\ activeTab = "history" /\ fallbackShown

----------------------------------------------------------------------------
(* No automatic retry *)

\* the outcomes with which ApiService.request throws
Failures == {outcome \in LoadOutcomes \cup LoginOutcomes \cup VerifyOutcomes : Throws(outcome)}

\* the step sends a login, verification or resend request
SendsAuthRequest == \E call \in authCalls' : call.live /\ call \notin authCalls

\* C13: the step in which a catalog load, a login, a verification or a resend
\* fails sends no request (the failed catalog load leaves one load fewer in
\* flight), and every step that sends one is an operator's step: a tab
\* button, Retry, a form submission, Resend, or the verification answered
\* with a token, which loads the catalog for the operator who submitted the
\* code
C13_NoRequestAfterFailure ==
    [][/\ \A outcome \in Failures :
             /\ LoadSettled(outcome, FullCatalog) =>
                    loads' = loads - 1 /\ ~SendsAuthRequest
             /\ \A call \in authCalls :
                    \/ LoginSettled(call, outcome)
                    \/ VerifySettled(call, outcome)
                    \/ ResendSettled(call, outcome)
                    => loads' = loads /\ ~SendsAuthRequest
       /\ loads' > loads =>
             \/ \E tab \in AppTabs : Navigate(tab)
             \/ AppRetry
             \/ \E call \in authCalls : VerifySettled(call, "token")
       /\ SendsAuthRequest => LoginSubmit \/ VerifySubmit \/ ResendClick]_vars

\* C13, witness: the catalog load failed while the manage-products tab was
\* shown with an empty product list; the banner is up, the token is kept and
\* no load is in flight
C13_Witness ==
    /\ Screen = "app" /\ activeTab = "manage-products"
    /\ products = NoProducts
    /\ appError # ""
    /\ token = "t"
    /\ loads = 0

----------------------------------------------------------------------------
(* The screen after a 401 *)

\* C21: once a 401 has cleared the token, and until a verification stores a
\* new one, no tab's view (products, cart, history, manage products) is on
\* screen: the session shows a Login or the code entry
C21_NoViewWithoutToken ==
    (token = "" /\ storedToken = "") => MountedView = ""

----------------------------------------------------------------------------
(* Cancelled requests and genuine failures *)

NextApi ==
    \/ DashFetch
    \/ \E k \in 1..Len(dash.reqs) : \E outcome \in ApiOutcomes : DashSettle(k, outcome)
    \/ HistFetch
    \/ \E k \in 1..Len(hist.reqs) : \E outcome \in ApiOutcomes : HistSettle(k, outcome)

SpecApi == InitList /\ [][NextApi]_vars

\* C22: in the step in which a list request settles, the API client reports
\* it as cancelled (code ABORTED) exactly if the request's signal had been
\* aborted; a non-2xx answer to a request that was not aborted, whatever its
\* message, is reported as a failure and the products dashboard shows it as
\* its error
C22_CancelledIffSignalAborted ==
    [][\A k \in 1..Len(dash.reqs) : \A outcome \in ApiOutcomes :
          DashSettle(k, outcome) =>
             /\ RequestResult(dash.reqs[k], outcome) = "ABORTED"
                   <=> dash.reqs[k] = "aborted"
             /\ (outcome # "ok" /\ dash.reqs[k] = "pending") => dash'.error = k]_vars

----------------------------------------------------------------------------
(* The dashboard's loading flag *)

\* C30: in the products dashboard, while the request started last has not
\* settled, isLoading is true, whichever earlier requests have settled or
\* been cancelled meanwhile
C30_LoadingWhileLatestPending ==
    (Len(dash.reqs) > 0 /\ dash.reqs[Len(dash.reqs)] = "pending") => dash.isLoading

----------------------------------------------------------------------------
(* One order per confirmed sale *)

\* C26: an order-creation request is sent only while no other one is in
\* flight, unless it is for other cart lines than the request sent before it
C26_OneCreateRequestPerSale ==
    [][(inflight'.create > inflight.create /\ inflight.create > 0) =>
          lastOrderRequest'[1].items # lastOrderRequest[1].items]_vars

----------------------------------------------------------------------------
(* Bulk upload *)

\* the catalogs a load started by onProductsChange is answered with
LoadResponses == {FullCatalog, StockedCatalog}
\* what such a load can be answered with at all
LoadAnswers ==
    {<<outcome, list>> \in LoadOutcomes \X LoadResponses :
        Throws(outcome) => list = FullCatalog}

ManageTabs == {"products", "manage-products"}

\* the bulk-upload view, entered from the list of manage-products
NextUpload ==
    \/ \E tab \in ManageTabs : Navigate(tab)
    \/ ManageOpen("bulk-upload")
    \/ ManageBack
    \/ \E file \in Files : HandleFileSelect(file)
    \/ HandleUpload
    \/ \E call \in uploadCalls : \E outcome \in ManageOutcomes : UploadSettled(call, outcome)
    \/ \E which \in {"newest", "older"} : \E answer \in LoadAnswers :
          ChangeLoadSettled(which, answer[1], answer[2])

SpecUpload == InitList /\ [][NextUpload]_vars

\* the files that are spreadsheets
Spreadsheets == {"stock.xlsx", "stock.xls"}

BulkUploadShown == ManageShown("bulk-upload")

\* C23: the selected file of the bulk upload and the file of every upload
\* request is a spreadsheet of one of the two accepted types; selecting
\* another file sets the error message and leaves the selected file as it was
C23_OnlySpreadsheetsUploaded ==
    /\ [](/\ \A i \in 1..Len(bulk.selectedFile) : bulk.selectedFile[i] \in Spreadsheets
          /\ \A call \in uploadCalls : call.file \in Spreadsheets)
    /\ [][\A file \in Files \ Spreadsheets :
             HandleFileSelect(file) =>
                /\ bulk'.error # ""
                /\ bulk'.selectedFile = bulk.selectedFile]_vars

\* C23: a file that is no spreadsheet was picked while the upload of a
\* spreadsheet picked before is in flight
C23_Witness ==
    /\ BulkUploadShown
    /\ bulk.error = "Please select a valid Excel file (.xlsx or .xls)"
    /\ bulk.selectedFile # <<>>
    /\ \E call \in uploadCalls : call.live = "view"

\* the success view of BulkUpload: uploadResult is set
SuccessShown == BulkUploadShown /\ bulk.uploadResult # <<>>

\* C24: when the upload request of the bulk-upload view on screen is
\* answered with success, the view shows the success state with the counts
\* and the upload id, and a catalog load has been started
C24_SuccessShownAndCatalogReloaded ==
    [][\A call \in uploadCalls :
          (call.live = "view" /\ UploadSettled(call, "ok")) =>
             /\ SuccessShown'
             /\ changeLoads'.newest = "pending"]_vars

----------------------------------------------------------------------------
(* Adding and editing a product *)

\* the add and the edit form of manage-products
NextProduct ==
    \/ \E tab \in ManageTabs : Navigate(tab)
    \/ ManageOpen("add")
    \/ HandleEdit("p2")
    \/ ManageBack
    \/ \E field \in FormFields : \E text \in FormTexts(field) : HandleInputChange(field, text)
    \/ HandleSubmit
    \/ \E call \in productCalls : \E outcome \in ManageOutcomes : ProductSettled(call, outcome)
    \/ \E which \in {"newest", "older"} : ChangeLoadSettled(which, "ok", FullCatalog)

SpecProduct == InitList /\ [][NextProduct]_vars

\* a request body with every required field, positive prices, a retail price
\* above the wholesale price and a size
Sellable(body) ==
    /\ body.name # <<>>
    /\ body.category # <<>>
    /\ body.wholesalePrice > 0
    /\ body.retailPrice > body.wholesalePrice
    /\ body.sizes # <<>>

\* C25: every add-product and update-product request carries a name, a
\* category, positive prices, a retail price above the wholesale price and
\* at least one size; a submission that is blocked sends nothing and leaves
\* the form as entered
C25_OnlySellableProductsSent ==
    /\ [](\A call \in productCalls : Sellable(call.body))
    /\ [][(HandleSubmit /\ SubmitBlocked(productForm) # "") =>
             (productForm' = productForm /\ productCalls' = productCalls)]_vars

----------------------------------------------------------------------------
(* Rolling back an upload batch *)

\* the upload history of manage-products
NextRollback ==
    \/ \E tab \in ManageTabs : Navigate(tab)
    \/ ManageOpen("upload-history")
    \/ ManageBack
    \/ \E outcome \in ManageOutcomes : BatchesSettled(outcome)
    \/ \E batch \in BatchIds : HandleRollback(batch)
    \/ \E batch \in BatchIds : \E live \in {"live", "gone"} : \E outcome \in ManageOutcomes :
          RollbackSettled(batch, live, outcome)
    \/ \E which \in {"newest", "older"} : \E answer \in LoadAnswers :
          ChangeLoadSettled(which, answer[1], answer[2])

SpecRollback == InitList /\ [][NextRollback]_vars

\* C27: a rollback request is sent for a batch only if no rollback request
\* for that batch is in flight and none has succeeded
C27_OneRollbackPerBatch ==
    [][\A batch \in BatchIds :
          HandleRollback(batch) =>
             /\ rollbacks[batch].live + rollbacks[batch].gone = 0
             /\ batch \notin rolledBack]_vars

----------------------------------------------------------------------------
(* Overlapping catalog loads *)

\* C28: once every catalog load started through onProductsChange has been
\* answered and the one started last has succeeded, the product list of the
\* App is the response to the one started last
C28_LatestLoadWins ==
    (changeLoads.older = 0 /\ changeLoads.newest = "applied") =>
        products = changeLoads.response

----------------------------------------------------------------------------
(* Logging out with requests in flight *)

\* a sale is confirmed, the catalog is loaded again, and the operator logs out
NextLogout ==
    \/ \E tab \in {"products", "cart"} : Navigate(tab)
    \/ AddToCart("p1", SizesOf("p1")[1])
    \/ ConfirmSaleClick
    \/ \E outcome \in CreateOutcomes : OrderSettled(outcome)
    \/ \E response \in {<<>>, <<SoldOutCatalog>>} : ReloadSettled(response)
    \/ AppRetry
    \/ \E outcome \in LoadOutcomes : LoadSettled(outcome, FullCatalog)
    \/ Logout

SpecLogout == InitCheckout /\ [][NextLogout]_vars

\* C29: from a logout on, as long as nobody is authenticated, the cart is
\* empty, the active tab is the products tab and the product list is not
\* written, whatever answer to an earlier request arrives
C29_NothingChangesAfterLogout ==
    /\ [](~isAuthenticated => (cartItems = <<>> /\ activeTab = "products"))
    /\ [][(~isAuthenticated /\ ~isAuthenticated') => products' = products]_vars

====
